---- MODULE Spec2Model ----
(***************************************************************************)
(* CustomAgentService.query: the reduction of the model's event stream     *)
(* into the chat transcript (updatedMessages), with the arrays of the      *)
(* JavaScript heap made explicit so that a store into an array that was     *)
(* already handed to onMessage is visible.                                  *)
(*                                                                         *)
(* Strings are sequences of tokens; string concatenation is \o.            *)
(***************************************************************************)
EXTENDS Integers, Sequences, FiniteSets, TLC

\* ------------------------------------------------------------------ bounds
\* the longest stream prefix that is explored (chunks applied), any chunks
MaxEvents == 3
\* the longest stream prefix that is explored when only tool chunks arrive
MaxToolEvents == 4
\* the largest value Date.now() takes
MaxClock == 2
\* chunks per stream in SpecIgnored
MaxIgnoredEvents == 2
\* chunks per stream in SpecOutcomes
MaxOutcomeEvents == 4
\* chunks per stream in SpecErrors
MaxErrorEvents == 2
\* chunks per stream in SpecSetup
MaxSetupEvents == 1
\* chunks per stream in SpecHistory
MaxHistoryEvents == 3
\* the most images in one drop, paste or selection
MaxBatch == 3
\* chunks of both streams together in SpecOverlap
MaxOverlapEvents == 2

\* ------------------------------------------------------- values of the model
ToolCallIds == {"A", "B"}
ToolNames == {"write"}
\* the input of a tool-input-start part ({} in the source)
EmptyInput == "{}"
\* finalized inputs carried by tool-call chunks
Inputs == {"x", "y"}
\* the fragments carried by text-delta chunks
Texts == {<<"a">>, <<"b">>}

NoText == <<>>
NoParts == <<>>
NoOutput == [type |-> "none", value |-> <<>>]
\* metadata absent: no is_error, no timestamp, no session_id
NoTime == 0
NoSession == <<>>
NoMetadata == [is_error |-> FALSE, timestamp |-> NoTime, session_id |-> NoSession]

\* ------------------------------------------------------------ error values
\* A thrown or reported value, by the properties extractErrorMessage reads.
ErrorValue(tag, hasMessage, message, hasType, type, repr) ==
    [tag |-> tag, hasMessage |-> hasMessage, message |-> message,
     hasType |-> hasType, type |-> type, repr |-> repr]

NullError == ErrorValue("null", FALSE, <<>>, FALSE, <<>>, <<"null">>)
\* undefined
UndefinedError == ErrorValue("undefined", FALSE, <<>>, FALSE, <<>>, <<"undefined">>)
StringError(s) == ErrorValue("string", FALSE, <<>>, FALSE, <<>>, s)
\* a number or a boolean, with its String() form
PrimitiveError(r) == ErrorValue("primitive", FALSE, <<>>, FALSE, <<>>, r)
JsError(m) == ErrorValue("Error", TRUE, m, FALSE, <<>>, <<"Error: ">> \o m)
TypedError(t, m) ==
    ErrorValue("object", TRUE, m, TRUE, t,
               <<"{\"type\":\"">> \o t \o <<"\",\"message\":\"">> \o m \o <<"\"}">>)
MessageObject(m) ==
    ErrorValue("object", TRUE, m, FALSE, <<>>, <<"{\"message\":\"">> \o m \o <<"\"}">>)
PlainObject(r) == ErrorValue("object", FALSE, <<>>, FALSE, <<>>, r)

\* an extractErrorMessage whose first test is if (!error)
extractErrorMessageOfFalsy(error) ==
    IF error.tag \in {"null", "undefined"} \/ (error.tag = "string" /\ error.repr = <<>>)
    THEN <<"Unknown error occurred">>
    ELSE IF error.tag = "string" THEN error.repr
    ELSE IF error.tag = "Error" THEN error.message
    ELSE IF error.tag = "object" THEN
        IF error.hasMessage THEN
            IF error.hasType THEN error.type \o <<": ">> \o error.message
            ELSE error.message
        ELSE error.repr
    ELSE error.repr

extractErrorMessage(error) ==
    IF error.tag \in {"null", "undefined"} THEN <<"Unknown error occurred">>
    ELSE IF error.tag = "string" THEN error.repr
    ELSE IF error.tag = "Error" THEN error.message
    ELSE IF error.tag = "object" THEN
        IF error.hasMessage THEN
            IF error.hasType THEN error.type \o <<": ">> \o error.message
            ELSE error.message
        ELSE error.repr
    ELSE error.repr

\* new Error('Operation cancelled')
OperationCancelled == JsError(<<"Operation cancelled">>)
\* what the 'error' chunk of the stream may carry
StreamErrors == {TypedError(<<"overloaded_error">>, <<"busy">>)}
\* the values an 'error' chunk carries in SpecErrors: one of every shape
\* extractErrorMessage tells apart. hasMessage and hasType say that the property
\* is there and is a string
ErrorValues ==
    {NullError, UndefinedError,
     StringError(<<>>), StringError(<<"busy">>),
     JsError(<<"boom">>), JsError(<<>>),
     TypedError(<<"overloaded_error">>, <<"busy">>),
     MessageObject(<<"busy">>),
     ErrorValue("object", TRUE, <<"busy">>, FALSE, <<>>, <<"{\"message\":\"busy\",\"type\":7}">>),
     PlainObject(<<"{\"message\":42}">>),
     PlainObject(<<"{\"type\":\"overloaded_error\"}">>),
     PlainObject(<<"{}">>),
     PrimitiveError(<<"42">>)}
\* what getSdkLanguageModel, streamText or the stream iterator may throw
TransportErrors == {TypedError(<<"AI_APICallError">>, <<"fetch failed">>)}

\* ------------------------------------------------------------------- turns
Message(role, kind, text, parts, metadata) ==
    [role |-> role, kind |-> kind, text |-> text, parts |-> parts, metadata |-> metadata]

\* content: string
TextMessage(role, text, metadata) == Message(role, "string", text, NoParts, metadata)
\* content: array of parts
PartsMessage(role, parts, metadata) == Message(role, "array", NoText, parts, metadata)

\* the id and the name of a part or chunk that carries none
NoId == "-"
NoName == "-"

\* a text part of an assistant turn whose content is an array
TextPart(text) ==
    [type |-> "text", toolCallId |-> NoId, toolName |-> NoName,
     input |-> EmptyInput, output |-> NoOutput, text |-> text]
ToolCallPart(id, name, input) ==
    [type |-> "tool-call", toolCallId |-> id, toolName |-> name,
     input |-> input, output |-> NoOutput]
ToolResultPart(id, name, output) ==
    [type |-> "tool-result", toolCallId |-> id, toolName |-> name,
     input |-> EmptyInput, output |-> output]

\* payloads of tool-result (chunk.output) and tool-error (chunk.error)
ToolOutputs == {StringError(<<"ok">>)}
ToolFailures == {JsError(<<"disk full">>)}

guessToolResultOutput(v) ==
    IF v.tag = "string" THEN [type |-> "text", value |-> v.repr]
    ELSE IF v.tag = "Error" THEN [type |-> "error-text", value |-> v.message]
    ELSE [type |-> "json", value |-> v.repr]

\* ------------------------------------------------------------------ chunks
Chunk(type, text, id, toolName, input, payload) ==
    [type |-> type, text |-> text, id |-> id, toolName |-> toolName,
     input |-> input, payload |-> payload]


\* chunk types the switch leaves without any effect on updatedMessages
NoOpTypes == {"finish", "tool-input-delta"}
\* chunk types whose cases only log the chunk
LoggedTypes == {"file", "abort", "source"}
\* chunk types of the last, empty case of the switch
MarkerTypes ==
    {"text-start", "text-end", "start-step", "finish-step", "start", "tool-input-end",
     "reasoning-start", "reasoning-end", "reasoning-delta", "raw"}
\* every chunk type the switch leaves without any effect on updatedMessages
IgnoredTypes == NoOpTypes \cup LoggedTypes \cup MarkerTypes

Chunks ==
    {Chunk("text-delta", t, NoId, NoName, EmptyInput, NullError) : t \in Texts}
    \cup {Chunk(ty, NoText, NoId, NoName, EmptyInput, NullError) : ty \in NoOpTypes}
    \cup {Chunk("error", NoText, NoId, NoName, EmptyInput, e) : e \in StreamErrors}
    \cup {Chunk("tool-input-start", NoText, id, n, EmptyInput, NullError) :
            id \in ToolCallIds, n \in ToolNames}
    \cup {Chunk("tool-call", NoText, c[1], c[2], c[3], NullError) :
            c \in ToolCallIds \X ToolNames \X Inputs}
    \cup {Chunk("tool-result", NoText, id, n, EmptyInput, o) :
            id \in ToolCallIds, n \in ToolNames, o \in ToolOutputs}
    \cup {Chunk("tool-error", NoText, id, n, EmptyInput, f) :
            id \in ToolCallIds, n \in ToolNames, f \in ToolFailures}

\* the chunks Spec draws from: one chunk of every kind the switch tells apart, with
\* both fragments, the events of call A and a tool-result for each id (that of B
\* has no call); one finalized input and one no-op type are enough there.
\* SpecTools draws the tool calls of both ids with every input
GeneralChunks ==
    {c \in Chunks : /\ c.type # "tool-input-delta"
                    /\ c.input # "x"
                    /\ c.id = "B" => c.type = "tool-result"}

\* a tool-input-delta as the stream delivers it: the id of the call and a fragment
\* of its input (held in the input field)
InputDeltaChunks ==
    {Chunk("tool-input-delta", NoText, id, NoName, d, NullError) :
        id \in ToolCallIds, d \in Inputs}

\* the chunks SpecIgnored draws from: one chunk of every ignored type, a fragment of
\* the input of call A, and the chunks that change the transcript around them:
\* a text fragment, call A opened and call A finalized
IgnoredChunks ==
    {Chunk(ty, NoText, NoId, NoName, EmptyInput, NullError) :
        ty \in IgnoredTypes \ {"tool-input-delta"}}
    \cup {c \in InputDeltaChunks : c.id = "A" /\ c.input = "x"}
    \cup {c \in Chunks : c.type = "tool-input-start" /\ c.id = "A"}
    \cup {c \in Chunks : c.type = "tool-call" /\ c.id = "A" /\ c.input = "y"}
    \cup {c \in Chunks : c.type = "text-delta" /\ c.text = <<"a">>}

\* a tool whose execute throws a string
StringFailures == {StringError(<<"disk full">>)}

\* the chunks SpecOutcomes draws from: call A opened, calls A and B finalized, and
\* their outcomes: a result for each and a tool-error for A that carries a string
OutcomeChunks ==
    {c \in Chunks : c.type = "tool-input-start" /\ c.id = "A"}
    \cup {c \in Chunks : c.type = "tool-call" /\ c.input = "y"}
    \cup {c \in Chunks : c.type = "tool-result"}
    \cup {Chunk("tool-error", NoText, "A", n, EmptyInput, f) :
            n \in ToolNames, f \in StringFailures}

\* the chunks SpecErrors draws from: an 'error' chunk for every error value
ErrorChunks ==
    {Chunk("error", NoText, NoId, NoName, EmptyInput, e) : e \in ErrorValues}

\* the chunks of tool calls: both ids opened and finalized with every input, and
\* the result of call A
ToolChunks ==
    {c \in Chunks : \/ c.type \in {"tool-input-start", "tool-call"}
                    \/ c.type = "tool-result" /\ c.id = "A"}

\* --------------------------------------------------- caller-supplied history
UserTurn == TextMessage("user", <<"q">>, NoMetadata)
Histories ==
    { <<>>,
      <<UserTurn>>,
      <<UserTurn, TextMessage("assistant", <<"h">>, NoMetadata)>>,
      <<UserTurn,
        PartsMessage("assistant", <<TextPart(<<"h">>), ToolCallPart("A", "write", "x")>>,
                     NoMetadata),
        PartsMessage("tool", <<ToolResultPart("A", "write",
                                 [type |-> "text", value |-> <<"ok">>])>>, NoMetadata)>> }

VARIABLES
    heap,             \* the ChatMessage[] arrays allocated so far, by reference
    updatedMessages,  \* query's local: a reference into heap
    sessionId,        \* query's local const
    now,              \* Date.now()
    aborted,          \* abortController.signal.aborted
    pc,               \* where query stands
    trace,            \* the chunks the loop body has applied, in order
    delivered,        \* the references passed to onMessage, in order
    snapshots,        \* what each onMessage call saw at the moment of the call
    thrown,           \* what query rejected with
    caught,           \* what the try block threw
    historyAtCall,    \* the caller's turns at the moment query was called
    isInitialized,    \* this.isInitialized
    workingDirectory, \* this.workingDirectory
    setup,            \* where each call of setupWorkingDirectory stands, by caller
    other,            \* a second call of query on the same instance: its locals
    waited,           \* what a call of waitForInitialization came to
    state,            \* ChatInterface: the sidebar state of useVscodeState
    last,             \* the action last dispatched to postReducer, and the state before
    currentContext,   \* ChatInterface: useState currentContext
    uploadingImages,  \* ChatInterface: useState uploadingImages
    pendingImages,    \* ChatInterface: useState pendingImages
    batch             \* the images of one drop, paste or selection: how far each is

\* the state of the ChatInterface component
webview == <<state, last, currentContext, uploadingImages, pendingImages, batch>>

vars == <<heap, updatedMessages, sessionId, now, aborted, pc, trace,
          delivered, snapshots, thrown, caught, historyAtCall,
          isInitialized, workingDirectory, setup, other, waited, webview>>

\* the caller's array is the first one allocated
conversationHistory == 1
NoError == NullError

\* a value that may be undefined or null: no value, or the one value
Undefined == <<>>
Defined(v) == <<v>>
IsDefined(o) == Len(o) = 1
ValueOf(o) == o[1]

\* no action has been dispatched yet
NoDispatch == [action |-> "none", patch |-> Undefined, prev |-> Undefined]

\* the initial values of the component: useVscodeState's {css: {}, messages:
\* undefined}, no context, nothing uploading, nothing pending, nothing dropped
Mounted ==
    /\ state = [css |-> <<>>, messages |-> Undefined]
    /\ last = NoDispatch
    /\ currentContext = Undefined
    /\ uploadingImages = <<>>
    /\ pendingImages = <<>>
    /\ batch = <<>>

\* the callers of setupWorkingDirectory: the constructor, query and
\* waitForInitialization
Callers == {"constructor", "query", "wait"}

\* the values this.workingDirectory takes: its initializer '', the workspace's
\* .superdesign folder, superdesign-custom under os.tmpdir(), process.cwd()
NoDir == ""
WorkspaceDir == ".superdesign"
TempDir == "superdesign-custom"
CwdDir == "cwd"

\* the locals of a call of query, its parameters and what the caller saw of it
Call(at, ref, sid, signal, chunks, refs, seen, rejection, failure, history) ==
    [pc |-> at, updatedMessages |-> ref, sessionId |-> sid, aborted |-> signal,
     trace |-> chunks, delivered |-> refs, snapshots |-> seen,
     thrown |-> rejection, caught |-> failure, historyAtCall |-> history]

\* no second call is made
NoCall == Call("none", 0, NoSession, FALSE, <<>>, <<>>, <<>>, NoError, NoError, <<>>)

Last(s) == s[Len(s)]
Front(s) == SubSeq(s, 1, Len(s) - 1)

Init ==
    /\ heap \in {<<h>> : h \in Histories}
    /\ updatedMessages = conversationHistory
    /\ sessionId = NoSession
    /\ now = 1
    /\ aborted = FALSE
    /\ pc = "idle"
    /\ trace = <<>>
    /\ delivered = <<>>
    /\ snapshots = <<>>
    /\ thrown = NoError
    /\ caught = NoError
    /\ historyAtCall = heap[conversationHistory]
    /\ isInitialized = TRUE
    /\ workingDirectory = WorkspaceDir
    /\ setup = [c \in Callers |-> IF c = "constructor" THEN "workspace" ELSE "none"]
    /\ other = NoCall
    /\ waited = "none"
    /\ Mounted

\* ------------------------------------------------- the cases of the switch
\* a text-delta that overwrites the content of the last turn instead of extending it
TextDeltaReplaces(msgs, chunk) ==
    IF /\ Len(msgs) > 0
       /\ msgs[Len(msgs)].role = "assistant"
       /\ msgs[Len(msgs)].kind = "string"
       /\ msgs[Len(msgs)].metadata.is_error # TRUE
    THEN [msgs EXCEPT ![Len(msgs)].text = chunk.text]
    ELSE Append(msgs, TextMessage("assistant", chunk.text, NoMetadata))

\* a text-delta that puts the fragment in front of the text
TextDeltaPrepends(msgs, chunk) ==
    IF /\ Len(msgs) > 0
       /\ msgs[Len(msgs)].role = "assistant"
       /\ msgs[Len(msgs)].kind = "string"
       /\ ~msgs[Len(msgs)].metadata.is_error
    THEN [msgs EXCEPT ![Len(msgs)].text = chunk.text \o @]
    ELSE Append(msgs, TextMessage("assistant", chunk.text, NoMetadata))

\* a text-delta that does not look at the type of the last turn's content
TextDeltaIgnoresContentType(msgs, chunk) ==
    IF /\ Len(msgs) > 0
       /\ msgs[Len(msgs)].role = "assistant"
       /\ ~msgs[Len(msgs)].metadata.is_error
    THEN [msgs EXCEPT ![Len(msgs)] =
            TextMessage("assistant", @.text \o chunk.text, @.metadata)]
    ELSE Append(msgs, TextMessage("assistant", chunk.text, NoMetadata))

\* a text-delta that does not look at metadata.is_error
TextDeltaIgnoresErrorFlag(msgs, chunk) ==
    IF /\ Len(msgs) > 0
       /\ msgs[Len(msgs)].role = "assistant"
       /\ msgs[Len(msgs)].kind = "string"
    THEN [msgs EXCEPT ![Len(msgs)].text = @ \o chunk.text]
    ELSE Append(msgs, TextMessage("assistant", chunk.text, NoMetadata))

\* a text-delta that never merges into the last turn
TextDeltaAlwaysAppends(msgs, chunk) ==
    Append(msgs, TextMessage("assistant", chunk.text, NoMetadata))

\* case 'text-delta'
TextDelta(msgs, chunk) ==
    IF /\ Len(msgs) > 0
       /\ Last(msgs).role = "assistant"
       /\ Last(msgs).kind = "string"
       /\ Last(msgs).metadata.is_error # TRUE
    THEN Append(Front(msgs), [Last(msgs) EXCEPT !.text = Last(msgs).text \o chunk.text])
    ELSE Append(msgs, TextMessage("assistant", chunk.text, NoMetadata))

\* an error turn whose session id is made anew from the clock
ErrorTurnFreshSession(errorMsg, timestamp, sid) ==
    TextMessage("assistant", errorMsg,
                [is_error |-> TRUE, timestamp |-> timestamp,
                 session_id |-> <<"session_", timestamp>>])

\* the error turn of case 'error' and of the catch block
ErrorTurn(errorMsg, timestamp, sid) ==
    TextMessage("assistant", errorMsg,
                [is_error |-> TRUE, timestamp |-> timestamp, session_id |-> sid])

\* a case 'error' that only logs the error
StreamErrorDropsTurn(msgs, chunk, timestamp, sid) == msgs

\* case 'error'
StreamError(msgs, chunk, timestamp, sid) ==
    Append(msgs, ErrorTurn(extractErrorMessage(chunk.payload), timestamp, sid))

\* a tool-input-start that looks for an existing part first and empties its input
ToolInputStartUpserts(msgs, chunk) ==
    LET hits == {i \in 1..Len(msgs) :
                    /\ msgs[i].role = "assistant"
                    /\ msgs[i].kind = "array"
                    /\ \E p \in 1..Len(msgs[i].parts) :
                          /\ msgs[i].parts[p].type = "tool-call"
                          /\ msgs[i].parts[p].toolCallId = chunk.id}
    IN IF hits = {}
       THEN Append(msgs, PartsMessage("assistant",
                            <<ToolCallPart(chunk.id, chunk.toolName, EmptyInput)>>, NoMetadata))
       ELSE LET i == CHOOSE i \in hits : \A m \in hits : m <= i
                p == CHOOSE p \in 1..Len(msgs[i].parts) :
                        /\ msgs[i].parts[p].type = "tool-call"
                        /\ msgs[i].parts[p].toolCallId = chunk.id
            IN [msgs EXCEPT ![i].parts[p].input = EmptyInput]

\* case 'tool-input-start'
ToolInputStart(msgs, chunk) ==
    Append(msgs, PartsMessage("assistant",
                     <<ToolCallPart(chunk.id, chunk.toolName, EmptyInput)>>, NoMetadata))

\* msg.content.findIndex(part => part.type === 'tool-call' && part.toolCallId === id);
\* 0 stands for -1
FindIndex(parts, id) ==
    LET hits == {k \in 1..Len(parts) :
                    parts[k].type = "tool-call" /\ parts[k].toolCallId = id}
    IN IF hits = {} THEN 0 ELSE CHOOSE k \in hits : \A m \in hits : k <= m

\* a scan that finds nothing
ScanToolCallNeverFinds(msgs, id) == 0

\* the scan run from the oldest turn forward
ScanToolCallForward(msgs, id) ==
    LET hits == {i \in 1..Len(msgs) :
                    /\ msgs[i].role = "assistant"
                    /\ msgs[i].kind = "array"
                    /\ FindIndex(msgs[i].parts, id) # 0}
    IN IF hits = {} THEN 0 ELSE CHOOSE i \in hits : \A m \in hits : i <= m

\* the backward scan of case 'tool-call': the index of the turn it stops at, 0 if none
ScanToolCall(msgs, id) ==
    LET hits == {i \in 1..Len(msgs) :
                    /\ msgs[i].role = "assistant"
                    /\ msgs[i].kind = "array"
                    /\ FindIndex(msgs[i].parts, id) # 0}
    IN IF hits = {} THEN 0 ELSE CHOOSE i \in hits : \A m \in hits : m <= i

\* a store that adds the finalized call to the turn as one more part
ToolCallStoreAppendsPart(msgs, i, chunk) ==
    [msgs EXCEPT ![i].parts =
        Append(@, ToolCallPart(chunk.id, chunk.toolName, chunk.input))]

\* updatedMessages[i] = {...msg, content}: the array with the store applied
ToolCallStore(msgs, i, chunk) ==
    [msgs EXCEPT ![i].parts[FindIndex(msgs[i].parts, chunk.id)] =
        ToolCallPart(chunk.id, chunk.toolName, chunk.input)]

\* case 'tool-call', no existing part found
ToolCallAppend(msgs, chunk) ==
    Append(msgs, PartsMessage("assistant",
                     <<ToolCallPart(chunk.id, chunk.toolName, chunk.input)>>, NoMetadata))

\* a tool-result whose turn is put right behind the turn of its call
ToolResultBehindItsCall(msgs, chunk) ==
    LET turn == PartsMessage("tool",
                    <<ToolResultPart(chunk.id, chunk.toolName,
                                     guessToolResultOutput(chunk.payload))>>, NoMetadata)
        i == ScanToolCall(msgs, chunk.id)
    IN IF i = 0 THEN Append(msgs, turn)
       ELSE SubSeq(msgs, 1, i) \o <<turn>> \o SubSeq(msgs, i + 1, Len(msgs))

\* a tool-result that joins the parts of a tool turn that is already last
ToolResultJoinsLastToolTurn(msgs, chunk) ==
    LET part == ToolResultPart(chunk.id, chunk.toolName, guessToolResultOutput(chunk.payload))
    IN IF Len(msgs) > 0 /\ msgs[Len(msgs)].role = "tool"
       THEN [msgs EXCEPT ![Len(msgs)].parts = Append(@, part)]
       ELSE Append(msgs, PartsMessage("tool", <<part>>, NoMetadata))

\* case 'tool-result'
ToolResult(msgs, chunk) ==
    Append(msgs, PartsMessage("tool",
                     <<ToolResultPart(chunk.id, chunk.toolName,
                                      guessToolResultOutput(chunk.payload))>>, NoMetadata))

\* a case 'tool-error' that leaves the metadata out
ToolErrorUnflagged(msgs, chunk) ==
    Append(msgs, PartsMessage("tool",
                     <<ToolResultPart(chunk.id, chunk.toolName,
                                      guessToolResultOutput(chunk.payload))>>, NoMetadata))

\* case 'tool-error'
ToolError(msgs, chunk) ==
    Append(msgs, PartsMessage("tool",
                     <<ToolResultPart(chunk.id, chunk.toolName,
                                      guessToolResultOutput(chunk.payload))>>,
                     [is_error |-> TRUE, timestamp |-> NoTime, session_id |-> NoSession]))

\* a case 'tool-input-delta' that writes the fragment into the open call
ToolInputDeltaAccumulates(msgs, chunk) ==
    IF ScanToolCall(msgs, chunk.id) # 0
    THEN [msgs EXCEPT ![ScanToolCall(msgs, chunk.id)].parts[
                FindIndex(msgs[ScanToolCall(msgs, chunk.id)].parts, chunk.id)].input =
                    chunk.input]
    ELSE msgs

\* case 'tool-input-delta': break
ToolInputDelta(msgs, chunk) == msgs

\* TRUE when the case builds a new array ([...updatedMessages, ...])
Allocates(msgs, chunk) ==
    \/ chunk.type \in {"text-delta", "error", "tool-input-start", "tool-result", "tool-error"}
    \/ chunk.type = "tool-call" /\ ScanToolCall(msgs, chunk.id) = 0

\* the array value the case leaves updatedMessages referring to
Switch(msgs, chunk, timestamp, sid) ==
    CASE chunk.type = "text-delta" -> TextDelta(msgs, chunk)
      [] chunk.type = "error" -> StreamError(msgs, chunk, timestamp, sid)
      [] chunk.type = "tool-input-start" -> ToolInputStart(msgs, chunk)
      [] chunk.type = "tool-call" ->
            IF ScanToolCall(msgs, chunk.id) # 0
            THEN ToolCallStore(msgs, ScanToolCall(msgs, chunk.id), chunk)
            ELSE ToolCallAppend(msgs, chunk)
      [] chunk.type = "tool-result" -> ToolResult(msgs, chunk)
      [] chunk.type = "tool-error" -> ToolError(msgs, chunk)
      [] chunk.type = "tool-input-delta" -> ToolInputDelta(msgs, chunk)
      [] OTHER -> msgs

\* the heap and updatedMessages after the switch: a case that builds a new array
\* leaves updatedMessages referring to it; every other case leaves it referring to
\* the same array, which the store of case 'tool-call' has written to
AfterSwitch(h, ref, chunk, timestamp, sid) ==
    IF Allocates(h[ref], chunk)
    THEN [heap |-> Append(h, Switch(h[ref], chunk, timestamp, sid)), ref |-> Len(h) + 1]
    ELSE [heap |-> [h EXCEPT ![ref] = Switch(h[ref], chunk, timestamp, sid)], ref |-> ref]

\* a catch block that puts the error turn in the place of the last turn
CatchSubstitutes(msgs, error, timestamp, sid) ==
    Append(SubSeq(msgs, 1, Len(msgs) - 1),
           ErrorTurn(extractErrorMessage(error), timestamp, sid))

\* the catch block: the array with the error turn appended
CatchAppend(msgs, error, timestamp, sid) ==
    Append(msgs, ErrorTurn(extractErrorMessage(error), timestamp, sid))

\* a catch block that throws a new Error made of the message
RethrowWrapped(error) == JsError(extractErrorMessage(error))

\* throw error, at the end of the catch block
Rethrow(error) == error

\* --------------------------------------------------------------- the steps
\* what a call of setupWorkingDirectory waits for, and how it ended
Pending == {"stat-workspace", "create-workspace", "stat-temp", "create-temp"}
Settled == {"workspace", "temp", "cwd"}

\* setupWorkingDirectory up to its first await: with a workspace folder it
\* stats .superdesign there, without one superdesign-custom under os.tmpdir()
SetupBegins == {"stat-workspace", "stat-temp"}

\* what query leaves alone while a setup call moves on
queryLocals == <<heap, updatedMessages, sessionId, now, aborted, trace,
                 delivered, snapshots, thrown, caught, historyAtCall, other, waited, webview>>

\* a setupWorkingDirectory whose catch block does not set isInitialized
SetupReturnsUnreadyOnFallback(c, how, dir) ==
    /\ setup' = [setup EXCEPT ![c] = how]
    /\ workingDirectory' = dir
    /\ isInitialized' = IF how = "cwd" THEN isInitialized ELSE TRUE
    /\ pc' = IF c = "query" THEN "ready" ELSE pc
    /\ UNCHANGED queryLocals

\* a call of setupWorkingDirectory returns: the directory it chose is stored
\* and isInitialized set in the same turn; query's own call resumes query
SetupReturns(c, how, dir) ==
    /\ setup' = [setup EXCEPT ![c] = how]
    /\ workingDirectory' = dir
    /\ isInitialized' = TRUE
    /\ pc' = IF c = "query" THEN "ready" ELSE pc
    /\ UNCHANGED queryLocals

\* the directory is on disk: fs.stat resolved or fs.createDirectory resolved
SetupFindsDirectory ==
    \E c \in Callers :
        \/ /\ setup[c] \in {"stat-workspace", "create-workspace"}
           /\ SetupReturns(c, "workspace", WorkspaceDir)
        \/ /\ setup[c] \in {"stat-temp", "create-temp"}
           /\ SetupReturns(c, "temp", TempDir)

\* fs.stat rejected with FileNotFound in the workspace, or with anything under
\* os.tmpdir(): the call goes on to fs.createDirectory
SetupCreatesDirectory ==
    \E c \in Callers :
        /\ setup[c] \in {"stat-workspace", "stat-temp"}
        /\ setup' = [setup EXCEPT ![c] = IF setup[c] = "stat-workspace"
                                         THEN "create-workspace" ELSE "create-temp"]
        /\ UNCHANGED <<queryLocals, pc, isInitialized, workingDirectory>>

\* fs.stat rejected with another error in the workspace, or fs.createDirectory
\* rejected: the outer catch falls back to process.cwd()
SetupFails ==
    \E c \in Callers :
        /\ setup[c] \in {"stat-workspace", "create-workspace", "create-temp"}
        /\ SetupReturns(c, "cwd", CwdDir)

\* get isReady()
isReady == isInitialized

\* getWorkingDirectory()
getWorkingDirectory == workingDirectory

\* a promise of waitForInitialization resolved with the boolean
Resolved(b) == IF b THEN "true" ELSE "false"

\* waitForInitialization is called: on a service that is not initialized it
\* starts a run of setupWorkingDirectory and awaits it, else it returns at once
WaitForInitialization ==
    /\ waited = "none"
    /\ IF ~isInitialized
       THEN /\ \E s \in SetupBegins : setup' = [setup EXCEPT !["wait"] = s]
            /\ waited' = "waiting"
       ELSE /\ waited' = Resolved(isInitialized)
            /\ UNCHANGED setup
    /\ UNCHANGED <<heap, updatedMessages, sessionId, now, aborted, pc, trace, delivered,
                   snapshots, thrown, caught, historyAtCall, other, webview,
                   isInitialized, workingDirectory>>

\* the run waitForInitialization awaited has returned: return this.isInitialized
WaitReturns ==
    /\ waited = "waiting"
    /\ setup["wait"] \in Settled
    /\ waited' = Resolved(isInitialized)
    /\ UNCHANGED <<heap, updatedMessages, sessionId, now, aborted, pc, trace, delivered,
                   snapshots, thrown, caught, historyAtCall, other, webview,
                   isInitialized, workingDirectory, setup>>

\* a query that never runs the setup itself
NeedsSetupNever(initialized) == FALSE

\* if (!this.isInitialized) at the top of query
NeedsSetup(initialized) == ~initialized

\* query finds the service not initialized: await this.setupWorkingDirectory()
QueryAwaitsSetup ==
    /\ pc = "idle"
    /\ NeedsSetup(isInitialized)
    /\ \E s \in SetupBegins : setup' = [setup EXCEPT !["query"] = s]
    /\ pc' = "setup"
    /\ UNCHANGED <<queryLocals, isInitialized, workingDirectory>>

\* query up to its first await in the try block (getSdkLanguageModel)
QueryStart ==
    /\ \/ pc = "idle" /\ ~NeedsSetup(isInitialized)
       \/ pc = "ready"
    /\ updatedMessages' = conversationHistory
    /\ sessionId' = <<"session_", now>>
    /\ pc' = "model"
    /\ UNCHANGED <<heap, now, aborted, trace, delivered, snapshots, thrown, caught, historyAtCall,
                   isInitialized, workingDirectory, setup, other, waited, webview>>

\* Date.now() never runs backwards: what a reading may return
Readings == now..MaxClock

\* catch (error) { ...; onMessage(updatedMessages); throw error; }
Catch(error) ==
    \E t \in Readings :
    LET arr == CatchAppend(heap[updatedMessages], error, t, sessionId)
        ref == Len(heap) + 1
    IN /\ now' = t
       /\ heap' = Append(heap, arr)
       /\ updatedMessages' = ref
       /\ delivered' = Append(delivered, ref)
       /\ snapshots' = Append(snapshots, arr)
       /\ caught' = error
       /\ thrown' = Rethrow(error)
       /\ pc' = "rejected"
       /\ UNCHANGED <<historyAtCall, isInitialized, workingDirectory, setup, other, waited, webview>>

\* getSdkLanguageModel resolved and streamText returned
StreamCreated ==
    /\ pc = "model"
    /\ pc' = "stream"
    /\ UNCHANGED <<heap, updatedMessages, sessionId, now, aborted, trace,
                   delivered, snapshots, thrown, caught, historyAtCall,
                                  isInitialized, workingDirectory, setup, other, waited, webview>>

\* getSdkLanguageModel rejected or streamText threw
StreamConstructionFails ==
    /\ pc = "model"
    /\ \E e \in TransportErrors : Catch(e)
    /\ UNCHANGED <<sessionId, aborted, trace>>

\* a loop that never tests the signal
AbortCheckMissing(signalAborted) == FALSE

\* if (abortController?.signal.aborted) at the top of the loop body
AbortCheck(signalAborted) == signalAborted

\* a switch whose case 'tool-error' throws the tool's error
CaseThrowsOnToolError(chunk) == chunk.type = "tool-error"

\* no case of the switch holds a throw statement
CaseThrows(chunk) == FALSE

\* a loop that calls onMessage only after a chunk that changed updatedMessages
LoopNotifiesOnChange(chunk) == chunk.type \notin NoOpTypes

\* onMessage(updatedMessages) follows the switch, whatever the chunk
LoopNotifies(chunk) == TRUE

\* one iteration of the for-await loop: the abort check, the switch, onMessage
LoopBody(chunk) ==
    IF AbortCheck(aborted)
    THEN /\ Catch(OperationCancelled)
         /\ UNCHANGED <<sessionId, aborted, trace>>
    ELSE IF CaseThrows(chunk)
    THEN /\ Catch(chunk.payload)
         /\ UNCHANGED <<sessionId, aborted, trace>>
    ELSE \E t \in (IF chunk.type = "error" THEN Readings ELSE {now}) :
         LET after == AfterSwitch(heap, updatedMessages, chunk, t, sessionId)
         IN /\ now' = t
            /\ heap' = after.heap
            /\ updatedMessages' = after.ref
            /\ delivered' = IF LoopNotifies(chunk)
                            THEN Append(delivered, after.ref) ELSE delivered
            /\ snapshots' = IF LoopNotifies(chunk)
                            THEN Append(snapshots, after.heap[after.ref]) ELSE snapshots
            /\ trace' = Append(trace, chunk)
            /\ UNCHANGED <<sessionId, aborted, pc, thrown, caught, historyAtCall,
                           isInitialized, workingDirectory, setup, other, waited, webview>>

\* result.fullStream yields a chunk
StreamChunk ==
    /\ pc = "stream"
    /\ Len(trace) < MaxEvents
    /\ \E chunk \in GeneralChunks : LoopBody(chunk)

\* result.fullStream yields a chunk of a tool call
ToolStreamChunk ==
    /\ pc = "stream"
    /\ Len(trace) < MaxToolEvents
    /\ \E chunk \in ToolChunks : LoopBody(chunk)

\* a query that returns the array it was given
StreamDoneReturnsHistory ==
    /\ pc = "stream"
    /\ pc' = "resolved"
    /\ updatedMessages' = conversationHistory
    /\ UNCHANGED <<heap, sessionId, now, aborted, trace,
                   delivered, snapshots, thrown, caught, historyAtCall,
                                  isInitialized, workingDirectory, setup, other, waited, webview>>

\* result.fullStream is exhausted: return updatedMessages
StreamDone ==
    /\ pc = "stream"
    /\ pc' = "resolved"
    /\ UNCHANGED <<heap, updatedMessages, sessionId, now, aborted, trace,
                   delivered, snapshots, thrown, caught, historyAtCall,
                                  isInitialized, workingDirectory, setup, other, waited, webview>>

\* result.fullStream's iterator throws
StreamThrows ==
    /\ pc = "stream"
    /\ \E e \in TransportErrors : Catch(e)
    /\ UNCHANGED <<sessionId, aborted, trace>>

\* the caller aborts while query is pending
Abort ==
    /\ pc \in {"model", "stream"}
    /\ ~aborted
    /\ aborted' = TRUE
    /\ UNCHANGED <<heap, updatedMessages, sessionId, now, pc, trace,
                   delivered, snapshots, thrown, caught, historyAtCall,
                                  isInitialized, workingDirectory, setup, other, waited, webview>>

Next ==
    \/ QueryStart
    \/ StreamCreated
    \/ StreamConstructionFails
    \/ StreamChunk
    \/ StreamDone
    \/ StreamThrows
    \/ Abort

Spec == Init /\ [][Next]_vars

\* the same program fed only the chunks of tool calls and their results
NextTools ==
    \/ QueryStart
    \/ StreamCreated
    \/ StreamConstructionFails
    \/ ToolStreamChunk
    \/ StreamDone
    \/ StreamThrows
    \/ Abort

SpecTools == Init /\ [][NextTools]_vars

\* result.fullStream yields a chunk the switch ignores, or one that opens a turn
IgnoredStreamChunk ==
    /\ pc = "stream"
    /\ Len(trace) < MaxIgnoredEvents
    /\ \E chunk \in IgnoredChunks : LoopBody(chunk)

\* the same program fed the chunks the switch ignores
NextIgnored ==
    \/ QueryStart
    \/ StreamCreated
    \/ StreamConstructionFails
    \/ IgnoredStreamChunk
    \/ StreamDone
    \/ StreamThrows
    \/ Abort

SpecIgnored == Init /\ [][NextIgnored]_vars

\* SpecIgnored with the scheduling of the event loop: a call that was made runs to
\* its first await, the awaited model and stream settle, and a finite stream is
\* exhausted at some time
LiveIgnored ==
    /\ SpecIgnored
    /\ WF_vars(QueryStart)
    /\ WF_vars(StreamCreated)
    /\ WF_vars(StreamDone)

\* result.fullStream yields a chunk of a tool call or of its outcome
OutcomeStreamChunk ==
    /\ pc = "stream"
    /\ Len(trace) < MaxOutcomeEvents
    /\ \E chunk \in OutcomeChunks : LoopBody(chunk)

\* the same program fed finalized tool calls and their outcomes
NextOutcomes ==
    \/ QueryStart
    \/ StreamCreated
    \/ StreamConstructionFails
    \/ OutcomeStreamChunk
    \/ StreamDone
    \/ StreamThrows
    \/ Abort

SpecOutcomes == Init /\ [][NextOutcomes]_vars

\* result.fullStream yields an 'error' chunk
ErrorStreamChunk ==
    /\ pc = "stream"
    /\ Len(trace) < MaxErrorEvents
    /\ \E chunk \in ErrorChunks : LoopBody(chunk)

\* the same program fed 'error' chunks with every shape of error value
NextErrors ==
    \/ QueryStart
    \/ StreamCreated
    \/ StreamConstructionFails
    \/ ErrorStreamChunk
    \/ StreamDone
    \/ StreamThrows
    \/ Abort

SpecErrors == Init /\ [][NextErrors]_vars

\* the service right after its constructor returned: the setup it started is
\* at its first await, nothing is initialized, query has not been called
InitSetup ==
    /\ heap \in {<<h>> : h \in Histories}
    /\ updatedMessages = conversationHistory
    /\ sessionId = NoSession
    /\ now = 1
    /\ aborted = FALSE
    /\ pc = "idle"
    /\ trace = <<>>
    /\ delivered = <<>>
    /\ snapshots = <<>>
    /\ thrown = NoError
    /\ caught = NoError
    /\ historyAtCall = heap[conversationHistory]
    /\ isInitialized = FALSE
    /\ workingDirectory = NoDir
    /\ \E s \in SetupBegins :
          setup = [c \in Callers |-> IF c = "constructor" THEN s ELSE "none"]
    /\ other = NoCall
    /\ waited = "none"
    /\ Mounted

\* the chunks of the setup runs: a piece of text
SetupChunks == {c \in Chunks : c.type = "text-delta" /\ c.text = <<"a">>}

SetupStreamChunk ==
    /\ pc = "stream"
    /\ Len(trace) < MaxSetupEvents
    /\ \E chunk \in SetupChunks : LoopBody(chunk)

\* the program from the constructor on, query called at any moment
NextSetup ==
    \/ SetupFindsDirectory
    \/ SetupCreatesDirectory
    \/ SetupFails
    \/ WaitForInitialization
    \/ WaitReturns
    \/ QueryAwaitsSetup
    \/ QueryStart
    \/ StreamCreated
    \/ StreamConstructionFails
    \/ SetupStreamChunk
    \/ StreamDone
    \/ StreamThrows
    \/ Abort

SpecSetup == InitSetup /\ [][NextSetup]_vars

\* a file-system promise a run awaits is settled at some time, and the
\* continuation of an await whose promise has resolved is run
LiveSetup ==
    /\ SpecSetup
    /\ WF_vars(SetupFindsDirectory \/ SetupCreatesDirectory \/ SetupFails)
    /\ WF_vars(WaitReturns)

\* the chunks SpecHistory draws from: one of every kind that changes the
\* transcript, all of call A, whose id the last history also holds
HistoryChunks ==
    {c \in Chunks : c.type = "text-delta" /\ c.text = <<"a">>}
    \cup {c \in Chunks : c.type = "error"}
    \cup {c \in Chunks : /\ c.id = "A"
                         /\ c.type \in {"tool-input-start", "tool-result", "tool-error"}}
    \cup {c \in Chunks : c.type = "tool-call" /\ c.id = "A" /\ c.input = "y"}

HistoryStreamChunk ==
    /\ pc = "stream"
    /\ Len(trace) < MaxHistoryEvents
    /\ \E chunk \in HistoryChunks : LoopBody(chunk)

\* the same program fed the chunks that change the transcript
NextHistory ==
    \/ QueryStart
    \/ StreamCreated
    \/ StreamConstructionFails
    \/ HistoryStreamChunk
    \/ StreamDone
    \/ StreamThrows
    \/ Abort

SpecHistory == Init /\ [][NextHistory]_vars

\* ------------------------------------------- two calls on the same instance
\* the second caller's array is the second one allocated
otherHistory == 2

\* a query that keeps updatedMessages in a field of the service
LocalIsField(own, field) == field

\* let updatedMessages, const sessionId: query works on the locals of the call
Local(own, field) == own

\* what the second call leaves alone: the locals of the first and the service
firstCall == <<updatedMessages, sessionId, aborted, pc, trace, delivered, snapshots,
               thrown, caught, historyAtCall, isInitialized, workingDirectory, setup,
               waited, webview>>

\* the histories of the second caller: a question, and a finished tool call
OverlapHistories == {h \in Histories : Len(h) \in {1, 3}}

\* the service with two callers about to call query, each with its own array
InitOverlap ==
    /\ heap \in {<<h, g>> : h \in Histories, g \in OverlapHistories}
    /\ updatedMessages = conversationHistory
    /\ sessionId = NoSession
    /\ now = 1
    /\ aborted = FALSE
    /\ pc = "idle"
    /\ trace = <<>>
    /\ delivered = <<>>
    /\ snapshots = <<>>
    /\ thrown = NoError
    /\ caught = NoError
    /\ historyAtCall = heap[conversationHistory]
    /\ isInitialized = TRUE
    /\ workingDirectory = WorkspaceDir
    /\ setup = [c \in Callers |-> IF c = "constructor" THEN "workspace" ELSE "none"]
    /\ other = Call("idle", otherHistory, NoSession, FALSE, <<>>, <<>>, <<>>,
                    NoError, NoError, heap[otherHistory])
    /\ waited = "none"
    /\ Mounted

\* the second call up to its first await in the try block
OtherQueryStart ==
    /\ other.pc = "idle"
    /\ ~NeedsSetup(isInitialized)
    /\ other' = [other EXCEPT !.updatedMessages = otherHistory,
                              !.sessionId = <<"session_", now>>,
                              !.pc = "model"]
    /\ UNCHANGED <<heap, now, firstCall>>

\* the catch block of the second call
OtherCatch(error) ==
    \E t \in Readings :
    LET arr == CatchAppend(heap[Local(other.updatedMessages, updatedMessages)],
                           error, t, Local(other.sessionId, sessionId))
        ref == Len(heap) + 1
    IN /\ now' = t
       /\ heap' = Append(heap, arr)
       /\ other' = [other EXCEPT !.updatedMessages = ref,
                                 !.delivered = Append(@, ref),
                                 !.snapshots = Append(@, arr),
                                 !.caught = error,
                                 !.thrown = Rethrow(error),
                                 !.pc = "rejected"]
       /\ UNCHANGED firstCall

OtherStreamCreated ==
    /\ other.pc = "model"
    /\ other' = [other EXCEPT !.pc = "stream"]
    /\ UNCHANGED <<heap, now, firstCall>>

OtherStreamConstructionFails ==
    /\ other.pc = "model"
    /\ \E e \in TransportErrors : OtherCatch(e)

\* one iteration of the loop of the second call
OtherLoopBody(chunk) ==
    IF AbortCheck(other.aborted)
    THEN OtherCatch(OperationCancelled)
    ELSE IF CaseThrows(chunk)
    THEN OtherCatch(chunk.payload)
    ELSE \E t \in (IF chunk.type = "error" THEN Readings ELSE {now}) :
         LET after == AfterSwitch(heap, Local(other.updatedMessages, updatedMessages),
                                  chunk, t, Local(other.sessionId, sessionId))
             notify == LoopNotifies(chunk)
         IN /\ now' = t
            /\ heap' = after.heap
            /\ other' = [other EXCEPT
                            !.updatedMessages = after.ref,
                            !.delivered = IF notify THEN Append(@, after.ref) ELSE @,
                            !.snapshots = IF notify THEN Append(@, after.heap[after.ref])
                                          ELSE @,
                            !.trace = Append(@, chunk)]
            /\ UNCHANGED firstCall

\* the chunks of the two streams: a text fragment, call A opened and finalized
OverlapChunks ==
    {c \in HistoryChunks : c.type \in {"text-delta", "tool-input-start", "tool-call"}}

\* the first call's stream yields a chunk
OverlapStreamChunk ==
    /\ pc = "stream"
    /\ Len(trace) + Len(other.trace) < MaxOverlapEvents
    /\ \E chunk \in OverlapChunks : LoopBody(chunk)

\* the second call's stream yields a chunk
OtherStreamChunk ==
    /\ other.pc = "stream"
    /\ Len(trace) + Len(other.trace) < MaxOverlapEvents
    /\ \E chunk \in OverlapChunks : OtherLoopBody(chunk)

OtherStreamDone ==
    /\ other.pc = "stream"
    /\ other' = [other EXCEPT !.pc = "resolved"]
    /\ UNCHANGED <<heap, now, firstCall>>

OtherStreamThrows ==
    /\ other.pc = "stream"
    /\ \E e \in TransportErrors : OtherCatch(e)

\* the second caller aborts while its call is pending
OtherAbort ==
    /\ other.pc \in {"model", "stream"}
    /\ ~other.aborted
    /\ other' = [other EXCEPT !.aborted = TRUE]
    /\ UNCHANGED <<heap, now, firstCall>>

\* two calls of query in flight, their steps interleaved in every way
NextOverlap ==
    \/ QueryStart
    \/ StreamCreated
    \/ StreamConstructionFails
    \/ OverlapStreamChunk
    \/ StreamDone
    \/ StreamThrows
    \/ Abort
    \/ OtherQueryStart
    \/ OtherStreamCreated
    \/ OtherStreamConstructionFails
    \/ OtherStreamChunk
    \/ OtherStreamDone
    \/ OtherStreamThrows
    \/ OtherAbort

SpecOverlap == InitOverlap /\ [][NextOverlap]_vars

\* ------------------------------------------------- ChatInterface: postReducer
\* what the component leaves alone: the agent service
service == <<heap, updatedMessages, sessionId, now, aborted, pc, trace, delivered,
             snapshots, thrown, caught, historyAtCall, isInitialized,
             workingDirectory, setup, other, waited>>

\* the css files asked for, what reading one gives, and the patches of
\* getCssFileContent: content and error are optional
CssPaths == {"a.css", "b.css"}
CssContents == {Undefined, Defined("x"), Defined("y")}
CssErrors == {Undefined, Defined("ENOENT")}
CssPatches == [filePath : CssPaths, content : CssContents, error : CssErrors]

getCssFileContent(prevState, patch) ==
    [prevState EXCEPT !.css =
        [p \in DOMAIN prevState.css \cup {patch.filePath} |->
            IF p = patch.filePath
            THEN [filePath |-> patch.filePath, content |-> patch.content,
                  error |-> patch.error]
            ELSE prevState.css[p]]]

\* a loadChats that builds the state anew, without the spread of prevState
loadChatsWithoutSpread(prevState, patch) ==
    [css |-> <<>>, messages |-> Defined(patch)]

loadChats(prevState, patch) == [prevState EXCEPT !.messages = Defined(patch)]

clearChats(prevState, patch) == [prevState EXCEPT !.messages = Defined(<<>>)]

sendChatMessage(prevState, patch) == prevState

\* the reducer's result becomes the state; last keeps what was dispatched
Dispatched(action, patch, next) ==
    /\ state' = next
    /\ last' = [action |-> action, patch |-> patch, prev |-> Defined(state)]
    /\ UNCHANGED <<service, currentContext, uploadingImages, pendingImages, batch>>

GetCssFileContent ==
    \E patch \in CssPatches :
        Dispatched("getCssFileContent", Defined(patch), getCssFileContent(state, patch))

LoadChats ==
    \E patch \in Histories :
        Dispatched("loadChats", Defined(patch), loadChats(state, patch))

ClearChats == Dispatched("clearChats", Undefined, clearChats(state, Undefined))

SendChatMessage ==
    Dispatched("sendChatMessage", Undefined, sendChatMessage(state, Undefined))

\* the sidebar state under every sequence of actions
NextSidebar ==
    \/ GetCssFileContent
    \/ LoadChats
    \/ ClearChats
    \/ SendChatMessage

SpecSidebar == Init /\ [][NextSidebar]_vars

\* ---------------------------------------------- ChatInterface: image upload
\* file.name of the i-th image of the batch, and the path the extension saved it at
originalName(i) == <<"image", i>>
fullPath(i) == <<"moodboard", i>>
\* the ', ' of join
Separator == <<", ", 0>>

\* the component with the chats loaded (an empty list) and nothing dropped yet
InitUpload ==
    /\ heap \in {<<h>> : h \in {<<>>}}
    /\ updatedMessages = conversationHistory
    /\ sessionId = NoSession
    /\ now = 1
    /\ aborted = FALSE
    /\ pc = "idle"
    /\ trace = <<>>
    /\ delivered = <<>>
    /\ snapshots = <<>>
    /\ thrown = NoError
    /\ caught = NoError
    /\ historyAtCall = heap[conversationHistory]
    /\ isInitialized = TRUE
    /\ workingDirectory = WorkspaceDir
    /\ setup = [c \in Callers |-> IF c = "constructor" THEN "workspace" ELSE "none"]
    /\ other = NoCall
    /\ waited = "none"
    /\ state = [css |-> <<>>, messages |-> Defined(<<>>)]
    /\ last = NoDispatch
    /\ currentContext = Undefined
    /\ uploadingImages = <<>>
    /\ pendingImages = <<>>
    /\ batch = <<>>

\* state.messages === undefined
isChatHistoryLoading == ~IsDefined(state.messages)

\* prev.filter(name => name !== originalName)
RECURSIVE FilterName(_, _)
FilterName(names, name) ==
    IF names = <<>> THEN <<>>
    ELSE (IF names[1] = name THEN <<>> ELSE <<names[1]>>) \o FilterName(Tail(names), name)

\* pendingImages.map(img => img.fullPath).join(', ')
RECURSIVE JoinPaths(_)
JoinPaths(images) ==
    IF images = <<>> THEN <<>>
    ELSE IF Len(images) = 1 THEN <<images[1].fullPath>>
    ELSE <<images[1].fullPath, Separator>> \o JoinPaths(Tail(images))

\* handleDrop, the global drop, the paste and the file input: the images of one
\* batch are handed to handleImageUpload one after the other
HandleDrop ==
    /\ batch = <<>>
    /\ ~isChatHistoryLoading
    /\ \E n \in 1..MaxBatch :
          batch' = [i \in 1..n |-> [upload |-> "queued", notice |-> "none"]]
    /\ UNCHANGED <<service, state, last, currentContext, uploadingImages, pendingImages>>

\* the loop of the batch has come to image i: every image before it is through
IsNext(i) ==
    /\ batch[i].upload = "queued"
    /\ \A j \in 1..(i - 1) : batch[j].upload = "done"

\* the effect of lines 524-548 has something to do: React runs it before it
\* handles the next event
EffectDue == Len(uploadingImages) = 0 /\ Len(pendingImages) > 0

\* handleImageUpload returns at once: the file is larger than maxSize
UploadRefused ==
    \E i \in DOMAIN batch :
        /\ IsNext(i)
        /\ batch' = [batch EXCEPT ![i] = [upload |-> "done", notice |-> "never"]]
        /\ UNCHANGED <<service, state, last, currentContext, uploadingImages,
                       pendingImages>>

\* handleImageUpload up to its first await: the name joins uploadingImages. It
\* runs in the microtask behind the end of the upload before it, so React may
\* or may not have rendered in between
UploadStarts ==
    \E i \in DOMAIN batch :
        /\ IsNext(i)
        /\ uploadingImages' = Append(uploadingImages, originalName(i))
        /\ batch' = [batch EXCEPT ![i].upload = "reading"]
        /\ UNCHANGED <<service, state, last, currentContext, pendingImages>>

\* the FileReader loaded the file: api.saveImageToMoodboard is called
ReadDone ==
    \E i \in DOMAIN batch :
        /\ ~EffectDue
        /\ batch[i].upload = "reading"
        /\ batch' = [batch EXCEPT ![i].upload = "saving"]
        /\ UNCHANGED <<service, state, last, currentContext, uploadingImages,
                       pendingImages>>

\* the FileReader failed: catch, then finally takes the name out
ReadFails ==
    \E i \in DOMAIN batch :
        /\ ~EffectDue
        /\ batch[i].upload = "reading"
        /\ uploadingImages' = FilterName(uploadingImages, originalName(i))
        /\ batch' = [batch EXCEPT ![i] = [upload |-> "done", notice |-> "never"]]
        /\ UNCHANGED <<service, state, last, currentContext, pendingImages>>

\* api.saveImageToMoodboard resolved or rejected: finally takes the name out
SaveSettles ==
    \E i \in DOMAIN batch :
        /\ ~EffectDue
        /\ batch[i].upload = "saving"
        /\ uploadingImages' = FilterName(uploadingImages, originalName(i))
        /\ batch' = [batch EXCEPT ![i].upload = "done"]
        /\ UNCHANGED <<service, state, last, currentContext, pendingImages>>

\* the extension has the request and has not answered it with a message yet
Unanswered(i) == batch[i].upload \in {"saving", "done"} /\ batch[i].notice = "none"

\* handleMessage, command imageSavedToMoodboard
ImageSavedToMoodboard ==
    \E i \in DOMAIN batch :
        /\ ~EffectDue
        /\ Unanswered(i)
        /\ pendingImages' = Append(pendingImages,
                                [fileName |-> <<"saved", i>>,
                                 originalName |-> originalName(i),
                                 fullPath |-> fullPath(i)])
        /\ uploadingImages' = FilterName(uploadingImages, originalName(i))
        /\ batch' = [batch EXCEPT ![i].notice = "saved"]
        /\ UNCHANGED <<service, state, last, currentContext>>

\* handleMessage, command imageSaveError
ImageSaveError ==
    \E i \in DOMAIN batch :
        /\ ~EffectDue
        /\ Unanswered(i)
        /\ uploadingImages' = FilterName(uploadingImages, originalName(i))
        /\ batch' = [batch EXCEPT ![i].notice = "failed"]
        /\ UNCHANGED <<service, state, last, currentContext, pendingImages>>

\* the context the effect sets from the images that are pending
ContextOf(images) ==
    IF Len(images) = 1
    THEN [fileName |-> <<images[1].fullPath>>, type |-> "image"]
    ELSE [fileName |-> JoinPaths(images), type |-> "images"]

\* the effect: nothing is uploading and images are pending
AutoSetContext ==
    /\ EffectDue
    /\ currentContext' = Defined(ContextOf(pendingImages))
    /\ pendingImages' = <<>>
    /\ UNCHANGED <<service, state, last, uploadingImages, batch>>

\* one batch of images under every order of its uploads and notifications
NextUpload ==
    \/ HandleDrop
    \/ UploadRefused
    \/ UploadStarts
    \/ ReadDone
    \/ ReadFails
    \/ SaveSettles
    \/ ImageSavedToMoodboard
    \/ ImageSaveError
    \/ AutoSetContext

SpecUpload == InitUpload /\ [][NextUpload]_vars

\* ------------------------------------------------------ reading the history
\* the transcript as it stood before the k-th applied chunk
Before(k) == IF k = 1 THEN historyAtCall ELSE snapshots[k - 1]
\* the transcript as onMessage saw it after the k-th applied chunk
After(k) == snapshots[k]

IsTextDelta(c) == c.type = "text-delta"
\* tool and error chunks: what ends a run of text fragments
EndsRun(c) ==
    c.type \in {"tool-input-start", "tool-call", "tool-result", "tool-error", "error"}

\* chunks i..j are a run of text fragments: it opens with a text-delta, no tool or
\* error chunk lies inside, and no text-delta precedes it since the last tool or
\* error chunk (or the start of the stream)
TextRun(i, j) ==
    /\ 1 <= i /\ i <= j /\ j <= Len(trace)
    /\ IsTextDelta(trace[i])
    /\ \A k \in i..j : ~EndsRun(trace[k])
    /\ \A k \in 1..(i - 1) :
          IsTextDelta(trace[k]) => \E m \in (k + 1)..(i - 1) : EndsRun(trace[m])

RECURSIVE Fragments(_, _)
\* the fragments of chunks i..j, concatenated in arrival order
Fragments(i, j) ==
    IF i > j THEN <<>>
    ELSE (IF IsTextDelta(trace[i]) THEN trace[i].text ELSE <<>>) \o Fragments(i + 1, j)

\* the last turn takes a text-delta by concatenation
Mergeable(msgs) ==
    /\ Len(msgs) > 0
    /\ Last(msgs).role = "assistant"
    /\ Last(msgs).kind = "string"
    /\ ~Last(msgs).metadata.is_error

\* ---------------------------------------------------------------------- C1
\* C1 as stated: after every run of text fragments the transcript has exactly one
\* more turn than before the run, an assistant turn whose content is the
\* concatenation of the fragments, whatever the caller's history.
C1_OneNewTurnPerRun ==
    \A i \in 1..Len(trace) : \A j \in i..Len(trace) :
        TextRun(i, j) =>
            /\ Len(After(j)) = Len(Before(i)) + 1
            /\ Last(After(j)) = TextMessage("assistant", Fragments(i, j), NoMetadata)

\* C1 amended: a run of text fragments adds exactly one assistant turn holding the
\* concatenation of the fragments, unless the transcript before the run ends with
\* a plain-text assistant turn that is no error turn (the caller's history may, and
\* so may the transcript after a tool-call that updated an existing part): then no
\* turn is added and the fragments are concatenated onto that turn. Every earlier
\* turn is unchanged.
C1_RunMergesOrAppends ==
    \A i \in 1..Len(trace) : \A j \in i..Len(trace) :
        TextRun(i, j) =>
            IF Mergeable(Before(i))
            THEN /\ Len(After(j)) = Len(Before(i))
                 /\ Front(After(j)) = Front(Before(i))
                 /\ Last(After(j)) =
                        [Last(Before(i)) EXCEPT !.text = @ \o Fragments(i, j)]
            ELSE /\ Front(After(j)) = Before(i)
                 /\ Last(After(j)) = TextMessage("assistant", Fragments(i, j), NoMetadata)

\* a run of two fragments after a tool result has produced its one turn
C1_Witness ==
    /\ Len(trace) = 3
    /\ trace[1].type = "tool-result"
    /\ TextRun(2, 3)
    /\ IsTextDelta(trace[3])
    /\ trace[2].text # trace[3].text
    /\ Len(After(3)) = Len(Before(2)) + 1

\* ---------------------------------------------------------------------- C2
\* chunks p..p+3 are: tool-input-start a, tool-input-start b, tool-call b, tool-call a
Interleaved(p, a, b) ==
    /\ p + 3 <= Len(trace)
    /\ a # b
    /\ trace[p].type = "tool-input-start" /\ trace[p].id = a
    /\ trace[p + 1].type = "tool-input-start" /\ trace[p + 1].id = b
    /\ trace[p + 2].type = "tool-call" /\ trace[p + 2].id = b
    /\ trace[p + 3].type = "tool-call" /\ trace[p + 3].id = a

\* C2: after tool-input-start A, tool-input-start B, tool-call B, tool-call A the
\* transcript is the one before these chunks followed by two assistant turns, the
\* first with the single ToolCall part of A holding A's finalized input, the second
\* with the single ToolCall part of B holding B's finalized input.
C2_InterleavedCallsKeepTheirInput ==
    \A p \in 1..Len(trace) : \A a \in ToolCallIds : \A b \in ToolCallIds :
        Interleaved(p, a, b) =>
            After(p + 3) = Before(p) \o
                <<PartsMessage("assistant",
                      <<ToolCallPart(a, trace[p + 3].toolName, trace[p + 3].input)>>,
                      NoMetadata),
                  PartsMessage("assistant",
                      <<ToolCallPart(b, trace[p + 2].toolName, trace[p + 2].input)>>,
                      NoMetadata)>>

\* the four chunks were applied to a history that already holds a ToolCall of A,
\* with different finalized inputs
C2_Witness ==
    /\ Interleaved(1, "A", "B")
    /\ trace[3].input # trace[4].input
    /\ ScanToolCall(historyAtCall, "A") # 0

\* ---------------------------------------------------------------------- C3
\* the arrays that left query's hands: the caller's and those passed to onMessage
HandedOut == {conversationHistory} \cup {delivered[k] : k \in 1..Len(delivered)}

\* C3: no array that was received from the caller or passed to onMessage is
\* modified by a later step.
C3_CopyOnWrite == [][\A r \in HandedOut : heap'[r] = heap[r]]_vars

\* ---------------------------------------------------------------------- C4
Completed == pc \in {"resolved", "rejected"}

\* C4: a query whose cancellation signal was set while it was pending never
\* resolves normally.
C4_CancelledNeverResolves == aborted => pc # "resolved"

\* ---------------------------------------------------------------------- C5
\* C5: when the signal is set before any chunk is applied and no transport error
\* occurs, query rejects with the cancellation failure and the observer's last
\* transcript is the caller's history plus one error turn with the call's session id.
C5_CancelledBeforeFirstChunk ==
    (aborted /\ Completed /\ Len(trace) = 0 /\ caught \notin TransportErrors) =>
        /\ pc = "rejected"
        /\ thrown = OperationCancelled
        /\ Len(snapshots) = 1
        /\ Front(Last(snapshots)) = historyAtCall
        /\ Last(Last(snapshots)).metadata.is_error
        /\ Last(Last(snapshots)).metadata.session_id = sessionId

\* ---------------------------------------------------------------------- C6
\* C6: when query has rejected, onMessage was called once per applied chunk and
\* exactly once more, that last call received the array query holds, which has one
\* turn more than the transcript before the failure, an error turn, and the value
\* query rejected with is the value the try block threw.
C6_FailureIsReportedOnceAndRethrown ==
    pc = "rejected" =>
        /\ Len(delivered) = Len(trace) + 1
        /\ Last(delivered) = updatedMessages
        /\ Last(snapshots) = heap[updatedMessages]
        /\ Len(Last(snapshots)) = Len(Before(Len(snapshots))) + 1
        /\ Last(Last(snapshots)).metadata.is_error
        /\ thrown = caught
        /\ caught \in TransportErrors \cup {OperationCancelled}

\* query rejected with the cancellation failure after two chunks were applied
C6_Witness ==
    /\ pc = "rejected"
    /\ caught = OperationCancelled
    /\ Len(trace) = 2

\* ---------------------------------------------------------------------- C7
\* C7: the transcript delivered on failure is the transcript as it stood after the
\* last applied chunk, every turn at its index and unchanged, followed by one error
\* turn whose content is the message of the failure.
C7_ErrorTurnIsAppended ==
    pc = "rejected" =>
        /\ Front(Last(snapshots)) = Before(Len(snapshots))
        /\ Last(Last(snapshots)).role = "assistant"
        /\ Last(Last(snapshots)).kind = "string"
        /\ Last(Last(snapshots)).text = extractErrorMessage(caught)
        /\ Last(Last(snapshots)).metadata.is_error

\* the stream threw after chunks had added turns to the caller's history
C7_Witness ==
    /\ pc = "rejected"
    /\ caught \in TransportErrors
    /\ Len(trace) >= 2
    /\ Len(Before(Len(snapshots))) >= Len(historyAtCall) + 2

\* ---------------------------------------------------------------------- C8
\* the turns before index i hold a ToolCall part with this id
ToolCallBefore(msgs, i, id) ==
    \E j \in 1..(i - 1) : \E q \in 1..Len(msgs[j].parts) :
        msgs[j].parts[q].type = "tool-call" /\ msgs[j].parts[q].toolCallId = id

\* C8: every ToolResult part of the transcript refers to a ToolCall part of an
\* earlier turn.
C8_ResultsFollowTheirCall ==
    LET msgs == heap[updatedMessages]
    IN \A i \in 1..Len(msgs) : \A q \in 1..Len(msgs[i].parts) :
          msgs[i].parts[q].type = "tool-result" =>
              ToolCallBefore(msgs, i, msgs[i].parts[q].toolCallId)

\* ---------------------------------------------------------------------- C9
\* the k-th applied chunk is a tool-result or tool-error whose id no ToolCall part
\* of the transcript carries
Orphan(k) ==
    /\ trace[k].type \in {"tool-result", "tool-error"}
    /\ ~ToolCallBefore(Before(k), Len(Before(k)) + 1, trace[k].id)

\* C9: an orphan tool-result or tool-error leaves every existing turn as it was and
\* adds one turn of its own, a tool turn whose only part is the result, and query
\* goes on: it has not failed when onMessage receives that transcript.
C9_OrphanResultGetsItsOwnTurn ==
    \A k \in 1..Len(trace) :
        Orphan(k) =>
            /\ Front(After(k)) = Before(k)
            /\ Last(After(k)).role = "tool"
            /\ Len(Last(After(k)).parts) = 1
            /\ Last(After(k)).parts[1].type = "tool-result"
            /\ Last(After(k)).parts[1].toolCallId = trace[k].id
            /\ (Len(snapshots) = k => pc # "rejected")

\* an orphan tool-result was applied while the last turn was a tool turn of another call
C9_Witness ==
    /\ Len(trace) >= 1
    /\ Orphan(Len(trace))
    /\ trace[Len(trace)].type = "tool-result"
    /\ Len(Before(Len(trace))) > 0
    /\ Last(Before(Len(trace))).role = "tool"
    /\ Last(Before(Len(trace))).parts[1].toolCallId # trace[Len(trace)].id

\* --------------------------------------------------------------------- C10
IsPrefix(a, b) == Len(a) <= Len(b) /\ SubSeq(b, 1, Len(a)) = a

\* transcript q keeps every turn of p at its index, with its role, and a
\* plain-text turn of p is in q a plain-text turn whose content extends it
Extends(p, q) ==
    /\ Len(p) <= Len(q)
    /\ \A i \in 1..Len(p) :
          /\ q[i].role = p[i].role
          /\ p[i].kind = "string" =>
                (q[i].kind = "string" /\ IsPrefix(p[i].text, q[i].text))

\* C10: each transcript passed to onMessage extends the one passed before it (the
\* first extends the caller's history): no fewer turns, the same role at every
\* index, plain text only extended at its end.
C10_SnapshotsOnlyGrow ==
    \A k \in 1..Len(snapshots) : Extends(Before(k), After(k))

\* text was concatenated onto a turn between two onMessage calls, and the failure
\* handler delivered a last transcript
C10_Witness ==
    /\ Len(snapshots) = 3
    /\ Len(After(1)) > 0
    /\ Len(After(2)) = Len(After(1))
    /\ Last(After(1)).kind = "string"
    /\ Last(After(2)).text # Last(After(1)).text
    /\ pc = "rejected"

\* --------------------------------------------------------------------- C11
\* what the switch makes of transcript msgs on this chunk, at some clock reading
Applied(msgs, chunk) ==
    {Switch(msgs, chunk, t, sessionId) : t \in 1..MaxClock}

\* C11: onMessage is called once after every applied chunk, no-op chunks included,
\* with the array query holds, and what it sees is the transcript before the chunk
\* with the chunk applied; only the failure handler adds one more call.
C11_EveryChunkIsReported ==
    /\ Len(delivered) = Len(trace) + (IF pc = "rejected" THEN 1 ELSE 0)
    /\ Len(snapshots) = Len(delivered)
    /\ \A k \in 1..Len(trace) : After(k) \in Applied(Before(k), trace[k])
    /\ (pc \in {"stream", "resolved"} /\ Len(trace) > 0) =>
          (Last(delivered) = updatedMessages /\ Last(snapshots) = heap[updatedMessages])

\* a finish chunk that followed a text-delta was reported with the unchanged transcript
C11_Witness ==
    /\ pc = "stream"
    /\ Len(trace) = 2
    /\ trace[1].type = "text-delta"
    /\ trace[2].type = "finish"
    /\ Len(snapshots) = 2
    /\ After(2) = After(1)

\* --------------------------------------------------------------------- C12
\* this step is the failure handler's: one new array, the transcript query held
\* with one error turn appended, and query has rejected
OnlyErrorTurnAdded ==
    /\ pc' = "rejected"
    /\ Len(heap') = Len(heap) + 1
    /\ SubSeq(heap', 1, Len(heap)) = heap
    /\ Front(heap'[Len(heap')]) = heap[updatedMessages]
    /\ Last(heap'[Len(heap')]).metadata.is_error

\* C12: once the signal is set, no chunk is applied any more: every later step
\* leaves the applied chunks and every array as they are, or is the failure
\* handler's, which appends its single error turn; after the rejection nothing
\* changes.
C12_NothingAppliedAfterAbort ==
    [][aborted => /\ trace' = trace
                  /\ pc # "rejected"
                  /\ (heap' = heap \/ OnlyErrorTurnAdded)]_vars

\* a chunk that arrived after the signal was set, one chunk into the stream, was
\* not applied: query rejected with the cancellation failure
C12_Witness ==
    /\ pc = "rejected"
    /\ aborted
    /\ caught = OperationCancelled
    /\ Len(trace) = 1
    /\ Len(snapshots) = 2
    /\ Front(After(2)) = After(1)

\* --------------------------------------------------------------------- C13
\* C13: a text-delta concatenates its text onto the last turn exactly when that
\* turn is an assistant turn with plain-text content that is no error turn, and
\* changes nothing else; otherwise it leaves every turn as it is and appends an
\* assistant turn whose content is the text.
C13_TextDeltaMergeRule ==
    \A k \in 1..Len(trace) :
        IsTextDelta(trace[k]) =>
            IF Mergeable(Before(k))
            THEN /\ Len(After(k)) = Len(Before(k))
                 /\ Front(After(k)) = Front(Before(k))
                 /\ Last(After(k)) = [Last(Before(k)) EXCEPT !.text = @ \o trace[k].text]
            ELSE After(k) =
                    Append(Before(k), TextMessage("assistant", trace[k].text, NoMetadata))

\* the turn kinds a text-delta does not merge into
C13_LastTurnKinds(msgs) ==
    IF Len(msgs) = 0 THEN "empty"
    ELSE IF Last(msgs).role # "assistant" THEN Last(msgs).role
    ELSE IF Last(msgs).kind = "array" THEN "parts"
    ELSE IF Last(msgs).metadata.is_error THEN "error"
    ELSE "text"

\* a text-delta was applied right after an error turn and got a turn of its own
C13_Witness ==
    /\ Len(trace) = 3
    /\ IsTextDelta(trace[1])
    /\ trace[2].type = "error"
    /\ IsTextDelta(trace[3])
    /\ C13_LastTurnKinds(Before(3)) = "error"
    /\ Len(After(3)) = Len(Before(3)) + 1
    /\ After(3)[Len(Before(3))] = Last(Before(3))

\* --------------------------------------------------------------------- C14
\* TRUE when the turn is an assistant turn whose parts hold a ToolCall with the id
HoldsToolCall(turn, id) ==
    /\ turn.role = "assistant"
    /\ turn.kind = "array"
    /\ \E p \in 1..Len(turn.parts) :
          turn.parts[p].type = "tool-call" /\ turn.parts[p].toolCallId = id

\* the indices of the turns of msgs that hold a ToolCall with the id
Holders(msgs, id) == {i \in 1..Len(msgs) : HoldsToolCall(msgs[i], id)}

\* the most recent of them
MostRecentHolder(msgs, id) ==
    CHOOSE i \in Holders(msgs, id) : \A m \in Holders(msgs, id) : m <= i

\* the position of the ToolCall with the id among the parts of the turn
PartOf(turn, id) ==
    CHOOSE p \in 1..Len(turn.parts) :
        /\ turn.parts[p].type = "tool-call" /\ turn.parts[p].toolCallId = id
        /\ \A q \in 1..(p - 1) :
              ~(turn.parts[q].type = "tool-call" /\ turn.parts[q].toolCallId = id)

\* C14: a tool-call with id X whose id some assistant turn's parts already hold
\* replaces the input of that part in the most recent such turn and leaves the
\* length of the transcript, every other part of that turn and every other turn
\* as they were; a tool-call whose id no part holds appends exactly one assistant
\* turn with a single ToolCall part of the id, name and input.
C14_ToolCallUpdatesMostRecentOrAppends ==
    \A k \in 1..Len(trace) :
        trace[k].type = "tool-call" =>
            LET b == Before(k)
                a == After(k)
                id == trace[k].id
            IN IF Holders(b, id) # {}
               THEN LET i == MostRecentHolder(b, id)
                        p == PartOf(b[i], id)
                    IN /\ Len(a) = Len(b)
                       /\ \A j \in 1..Len(b) : j # i => a[j] = b[j]
                       /\ a[i] = [b[i] EXCEPT !.parts = a[i].parts]
                       /\ Len(a[i].parts) = Len(b[i].parts)
                       /\ \A q \in 1..Len(b[i].parts) :
                             q # p => a[i].parts[q] = b[i].parts[q]
                       /\ a[i].parts[p] = [b[i].parts[p] EXCEPT !.input = trace[k].input]
               ELSE a = Append(b, PartsMessage("assistant",
                                     <<ToolCallPart(id, trace[k].toolName, trace[k].input)>>,
                                     NoMetadata))

\* two turns held a ToolCall A, one of them next to a text part; the tool-call
\* changed the input in the most recent turn only
C14_Witness ==
    /\ Len(trace) = 3 /\ Len(snapshots) = 3
    /\ trace[1].type = "tool-call" /\ trace[1].id = "A" /\ trace[1].input = "y"
    /\ trace[2].type = "tool-input-start" /\ trace[2].id = "A"
    /\ trace[3].type = "tool-call" /\ trace[3].id = "A" /\ trace[3].input = "x"
    /\ Holders(Before(3), "A") = {2, 4}
    /\ Before(1)[2].parts = <<TextPart(<<"h">>), ToolCallPart("A", "write", "x")>>
    /\ After(3)[2].parts = <<TextPart(<<"h">>), ToolCallPart("A", "write", "y")>>
    /\ Before(3)[4].parts = <<ToolCallPart("A", "write", EmptyInput)>>
    /\ After(3)[4].parts = <<ToolCallPart("A", "write", "x")>>

\* --------------------------------------------------------------------- C15
\* C15 as stated: a tool-input-start with id X whose id some assistant turn's
\* parts already hold sets the input of that part to the empty input and appends
\* no turn; it appends an assistant turn with the single ToolCall part only when
\* no part holds the id.
C15_ToolInputStartUpserts ==
    \A k \in 1..Len(trace) :
        trace[k].type = "tool-input-start" =>
            LET b == Before(k)
                a == After(k)
                id == trace[k].id
            IN IF Holders(b, id) # {}
               THEN LET i == MostRecentHolder(b, id)
                    IN /\ Len(a) = Len(b)
                       /\ a[i].parts[PartOf(b[i], id)].input = EmptyInput
               ELSE a = Append(b, PartsMessage("assistant",
                                     <<ToolCallPart(id, trace[k].toolName, EmptyInput)>>,
                                     NoMetadata))

\* C15: a tool-input-start with id X always appends one assistant turn with a
\* single ToolCall part of id X, the event's name and the empty input, whether or
\* not a part with id X exists already, and changes no existing turn or part.
C15_ToolInputStartAlwaysAppends ==
    \A k \in 1..Len(trace) :
        trace[k].type = "tool-input-start" =>
            After(k) = Append(Before(k),
                              PartsMessage("assistant",
                                  <<ToolCallPart(trace[k].id, trace[k].toolName, EmptyInput)>>,
                                  NoMetadata))

\* a tool-input-start A arrived while a finalized ToolCall A was in the transcript:
\* the old part kept its input and a second turn for A was appended
C15_Witness ==
    /\ Len(trace) = 2 /\ Len(snapshots) = 2
    /\ trace[1].type = "tool-call" /\ trace[1].id = "A" /\ trace[1].input = "y"
    /\ trace[2].type = "tool-input-start" /\ trace[2].id = "A"
    /\ Holders(Before(2), "A") # {}
    /\ Len(After(2)) = Len(Before(2)) + 1
    /\ Cardinality(Holders(After(2), "A")) = Cardinality(Holders(Before(2), "A")) + 1
    /\ \A i \in Holders(Before(2), "A") : After(2)[i] = Before(2)[i]

\* --------------------------------------------------------------------- C16
\* C16: when the same tool-call event (same id, name and input) is processed
\* twice in a row, the transcript after the second event equals the transcript
\* after the first: same turns, same roles, same parts, same inputs.
C16_RepeatedToolCallChangesNothing ==
    \A k \in 1..(Len(trace) - 1) :
        (trace[k].type = "tool-call" /\ trace[k + 1] = trace[k]) =>
            After(k + 1) = After(k)

\* the first of two equal tool-call events appended the turn for an id no part
\* held, the second one found it
C16_Witness ==
    /\ Len(trace) = 2 /\ Len(snapshots) = 2
    /\ trace[1].type = "tool-call"
    /\ trace[2] = trace[1]
    /\ Holders(Before(1), trace[1].id) = {}
    /\ Len(After(1)) = Len(Before(1)) + 1
    /\ After(2) = After(1)

\* --------------------------------------------------------------------- C17
\* TRUE when the turn is an error turn: an assistant turn with plain-text content
\* flagged is_error
IsErrorTurn(turn) ==
    turn.role = "assistant" /\ turn.kind = "string" /\ turn.metadata.is_error

\* C17: a stream 'error' event appends exactly one error turn and changes no
\* other turn; it does not make query fail; the events after it are applied in
\* order as the switch applies them; and when query resolves, the transcript
\* holds the error turn at the place it was appended, followed by the effects of
\* the later events.
C17_StreamErrorIsRecovered ==
    \A k \in 1..Len(trace) :
        trace[k].type = "error" =>
            /\ Len(After(k)) = Len(Before(k)) + 1
            /\ Front(After(k)) = Before(k)
            /\ IsErrorTurn(Last(After(k)))
            /\ Last(After(k)).text = extractErrorMessage(trace[k].payload)
            /\ pc = "rejected" => caught # trace[k].payload
            /\ \A j \in (k + 1)..Len(trace) :
                  /\ After(j) \in Applied(Before(j), trace[j])
                  /\ Len(After(j)) >= Len(After(k))
                  /\ After(j)[Len(After(k))] = Last(After(k))
            /\ pc = "resolved" =>
                  /\ thrown = NoError
                  /\ heap[updatedMessages] = After(Len(trace))
                  /\ heap[updatedMessages][Len(After(k))] = Last(After(k))

\* an 'error' event was followed by a text-delta that was applied, and query
\* resolved with the error turn and the text turn after it
C17_Witness ==
    /\ pc = "resolved"
    /\ thrown = NoError
    /\ Len(trace) = 2
    /\ trace[1].type = "error"
    /\ IsTextDelta(trace[2])
    /\ Len(heap[updatedMessages]) = Len(historyAtCall) + 2
    /\ IsErrorTurn(heap[updatedMessages][Len(historyAtCall) + 1])
    /\ Last(heap[updatedMessages]).text = trace[2].text

\* --------------------------------------------------------------------- C18
\* the transcript with every tool turn's error flag taken off: what the transcript
\* would be had each tool-error been a tool-result
Unflagged(msgs) ==
    [i \in 1..Len(msgs) |->
        IF msgs[i].role = "tool" THEN [msgs[i] EXCEPT !.metadata = NoMetadata] ELSE msgs[i]]

\* C18: a tool-error never makes query fail; every text-delta, tool-call and
\* tool-result after it is applied as the switch applies it, with the same outcome
\* as on the transcript in which the tool-error turns are plain tool-result turns;
\* and a query that resolved returned the transcript after the last event.
C18_ToolErrorNeverAborts ==
    /\ pc = "rejected" => caught \notin ToolFailures
    /\ \A k \in 1..Len(trace) :
        trace[k].type = "tool-error" =>
            /\ \A j \in (k + 1)..Len(trace) :
                  trace[j].type \in {"text-delta", "tool-call", "tool-result"} =>
                      /\ After(j) = Switch(Before(j), trace[j], now, sessionId)
                      /\ Unflagged(After(j)) =
                            Switch(Unflagged(Before(j)), trace[j], now, sessionId)
            /\ pc = "resolved" =>
                  /\ thrown = NoError
                  /\ heap[updatedMessages] = After(Len(trace))

\* two tool-errors were followed by a text-delta that got a turn of its own, and
\* query resolved
C18_Witness ==
    /\ pc = "resolved"
    /\ thrown = NoError
    /\ Len(trace) = 3
    /\ trace[1].type = "tool-error"
    /\ trace[2].type = "tool-error"
    /\ IsTextDelta(trace[3])
    /\ Len(heap[updatedMessages]) = Len(historyAtCall) + 3
    /\ heap[updatedMessages][Len(historyAtCall) + 2].metadata.is_error
    /\ Last(heap[updatedMessages]) = TextMessage("assistant", trace[3].text, NoMetadata)

\* --------------------------------------------------------------------- C19
\* C19: a tool-result and a tool-error each append exactly one turn of role tool
\* whose content is a single ToolResult part with the event's toolCallId and
\* toolName, and change no existing turn; the turn of a tool-result carries no
\* is_error flag, the turn of a tool-error carries metadata.is_error = true.
C19_ToolOutcomeAppendsOneToolTurn ==
    \A k \in 1..Len(trace) :
        trace[k].type \in {"tool-result", "tool-error"} =>
            /\ Len(After(k)) = Len(Before(k)) + 1
            /\ Front(After(k)) = Before(k)
            /\ Last(After(k)).role = "tool"
            /\ Last(After(k)).kind = "array"
            /\ Len(Last(After(k)).parts) = 1
            /\ Last(After(k)).parts[1].type = "tool-result"
            /\ Last(After(k)).parts[1].toolCallId = trace[k].id
            /\ Last(After(k)).parts[1].toolName = trace[k].toolName
            /\ Last(After(k)).metadata.is_error = (trace[k].type = "tool-error")

\* a tool-result and a tool-error for the same call were applied one after the
\* other: two tool turns, the second one flagged
C19_Witness ==
    /\ Len(trace) = 3 /\ Len(snapshots) >= 3
    /\ trace[1].type = "tool-call"
    /\ trace[2].type = "tool-result" /\ trace[2].id = trace[1].id
    /\ trace[3].type = "tool-error" /\ trace[3].id = trace[1].id
    /\ After(3)[Len(After(3)) - 1].role = "tool"
    /\ ~After(3)[Len(After(3)) - 1].metadata.is_error
    /\ Last(After(3)).role = "tool"
    /\ Last(After(3)).metadata.is_error
    /\ Front(After(3)) = After(2)

\* --------------------------------------------------------------------- C20
\* TRUE when the turn is the error turn for the error value: an assistant turn
\* with the normalized message as plain-text content and metadata of is_error, a
\* timestamp read from the clock and the session id of the call
IsErrorTurnFor(turn, error) ==
    /\ turn.role = "assistant"
    /\ turn.kind = "string"
    /\ turn.text = extractErrorMessage(error)
    /\ turn.metadata.is_error
    /\ turn.metadata.timestamp \in 1..MaxClock
    /\ turn.metadata.session_id = sessionId

\* C20: every error turn appended during a call, by a stream 'error' event or by
\* the failure handler, is an assistant turn whose plain-text content is the
\* normalized error message and whose metadata holds is_error = true, a
\* timestamp and a session_id; the session_id of all of them is the one made
\* when the call started, which no later clock reading changes.
C20_ErrorTurnsShareTheSession ==
    /\ pc # "idle" =>
          /\ Len(sessionId) = 2
          /\ sessionId[1] = "session_"
          /\ sessionId[2] \in 1..now
    /\ \A k \in 1..Len(trace) :
          trace[k].type = "error" =>
              /\ IsErrorTurnFor(Last(After(k)), trace[k].payload)
              /\ sessionId[2] <= Last(After(k)).metadata.timestamp
    /\ pc = "rejected" =>
          /\ IsErrorTurnFor(Last(heap[updatedMessages]), caught)
          /\ sessionId[2] <= Last(heap[updatedMessages]).metadata.timestamp
    /\ \A n \in 1..Len(snapshots) : \A i \in (Len(historyAtCall) + 1)..Len(snapshots[n]) :
          snapshots[n][i].metadata.is_error /\ snapshots[n][i].role = "assistant" =>
              snapshots[n][i].metadata.session_id = sessionId

\* an 'error' event appended an error turn at the first clock reading and the
\* failure handler appended another one at a later reading: both carry the
\* session id made at the start of the call
C20_Witness ==
    /\ pc = "rejected"
    /\ Len(trace) = 1
    /\ trace[1].type = "error"
    /\ sessionId = <<"session_", 1>>
    /\ Last(After(1)).metadata.timestamp = 1
    /\ Last(heap[updatedMessages]).metadata.timestamp = 2
    /\ Last(After(1)).metadata.session_id = Last(heap[updatedMessages]).metadata.session_id
    /\ Last(After(1)).text # Last(heap[updatedMessages]).text

Transcripts == <<historyAtCall>> \o snapshots

\* C22: the content representation of a turn is fixed at its array position: a
\* turn whose content is a part sequence is a part-sequence turn in every later
\* transcript, and a turn whose content is plain text is a plain-text turn in
\* every later transcript.
C22_RepresentationIsFixed ==
    \A n \in 1..Len(Transcripts) : \A m \in n..Len(Transcripts) :
        /\ Len(Transcripts[n]) <= Len(Transcripts[m])
        /\ \A i \in 1..Len(Transcripts[n]) :
              Transcripts[m][i].kind = Transcripts[n][i].kind

\* a text-delta arrived while the last turn held parts and a tool-call arrived
\* while a plain-text turn was last: the part-sequence turn and the plain-text
\* turn are what they were
C22_Witness ==
    /\ Len(trace) = 3 /\ Len(snapshots) = 3
    /\ trace[1].type = "tool-input-start"
    /\ IsTextDelta(trace[2])
    /\ trace[3].type = "tool-call" /\ trace[3].id = trace[1].id
    /\ Last(After(1)).kind = "array"
    /\ Len(After(2)) = Len(After(1)) + 1
    /\ Last(After(2)).kind = "string"
    /\ Len(After(3)) = Len(After(2))
    /\ After(3)[Len(After(1))].kind = "array"
    /\ After(3)[Len(After(1))].parts[1].input = trace[3].input
    /\ Last(After(3)) = Last(After(2))

\* --------------------------------------------------------------------- C23
\* TRUE when the k-th chunk is the outcome of a tool call
IsOutcome(k) == trace[k].type \in {"tool-result", "tool-error"}

\* TRUE when a tool-call with the id was applied before the k-th chunk
FinalizedBefore(k, id) ==
    \E c \in 1..(k - 1) : trace[c].type = "tool-call" /\ trace[c].id = id

\* TRUE when the turn is a tool turn with the single ToolResult part of the id
IsResultTurnOf(turn, id) ==
    /\ turn.role = "tool"
    /\ turn.kind = "array"
    /\ Len(turn.parts) = 1
    /\ turn.parts[1].type = "tool-result"
    /\ turn.parts[1].toolCallId = id

\* C23: the transcript changes in the order the events arrive: an event adds at
\* most one turn, at the end, and a turn keeps its index and its role from then
\* on; when two calls X and Y are finalized and their outcomes arrive, in either
\* order, each outcome is a tool turn of its own with its own toolCallId, behind
\* the turns that hold the two ToolCall parts, the earlier outcome before the
\* later one.
C23_TurnsFollowArrivalOrder ==
    /\ \A k \in 1..Len(trace) :
          /\ Len(After(k)) \in {Len(Before(k)), Len(Before(k)) + 1}
          /\ \A i \in 1..Len(Before(k)) : After(k)[i].role = Before(k)[i].role
    /\ \A p \in 1..Len(trace) : \A q \in (p + 1)..Len(trace) :
          (/\ IsOutcome(p) /\ IsOutcome(q)
           /\ trace[p].id # trace[q].id
           /\ FinalizedBefore(p, trace[p].id)
           /\ FinalizedBefore(p, trace[q].id)) =>
              LET calls == Holders(Before(p), trace[p].id) \cup Holders(Before(p), trace[q].id)
              IN /\ Len(After(p)) < Len(After(q))
                 /\ IsResultTurnOf(After(q)[Len(After(p))], trace[p].id)
                 /\ IsResultTurnOf(After(q)[Len(After(q))], trace[q].id)
                 /\ \A i \in calls : i < Len(After(p))
                 /\ Holders(After(q), trace[p].id) \cap 1..Len(Before(p)) =
                       Holders(Before(p), trace[p].id)
                 /\ Holders(After(q), trace[q].id) \cap 1..Len(Before(p)) =
                       Holders(Before(p), trace[q].id)

\* calls A and B were finalized in that order and their results arrived B first:
\* the transcript ends with call A, call B, result B, result A
C23_Witness ==
    /\ Len(trace) = 4 /\ Len(snapshots) = 4
    /\ historyAtCall = <<UserTurn>>
    /\ trace[1].type = "tool-call" /\ trace[1].id = "A"
    /\ trace[2].type = "tool-call" /\ trace[2].id = "B"
    /\ trace[3].type = "tool-result" /\ trace[3].id = "B"
    /\ trace[4].type = "tool-result" /\ trace[4].id = "A"
    /\ Len(After(4)) = 5
    /\ HoldsToolCall(After(4)[2], "A")
    /\ HoldsToolCall(After(4)[3], "B")
    /\ IsResultTurnOf(After(4)[4], "B")
    /\ IsResultTurnOf(After(4)[5], "A")

\* --------------------------------------------------------------------- C24
\* what a resolved query returned: the array updatedMessages refers to
Returned == heap[updatedMessages]

\* C24: with a finite stream query completes at some time, resolved or rejected;
\* a completed query stays what it is, so it never does both; a query that
\* resolved threw nothing, reported no failure and returned the transcript last
\* given to onMessage, the very array, or the caller's history when no chunk
\* arrived.
C24_QueryCompletesOnce ==
    /\ <>Completed
    /\ [][Completed => pc' = pc]_vars
    /\ [](pc = "resolved" =>
            /\ thrown = NoError
            /\ caught = NoError
            /\ Len(snapshots) = Len(trace)
            /\ Returned = Last(Transcripts)
            /\ updatedMessages = Last(<<conversationHistory>> \o delivered))

\* query resolved after a stream of two chunks that changed the transcript, with
\* the second snapshot
C24_Witness ==
    /\ pc = "resolved"
    /\ Len(trace) = 2 /\ Len(snapshots) = 2
    /\ trace[1].type = "tool-input-start"
    /\ trace[2].type = "tool-call"
    /\ Returned = After(2)
    /\ After(2) # After(1)
    /\ Returned # historyAtCall

\* --------------------------------------------------------------------- C25
\* the texts of chunks 1..n, one after the other
TextsUpTo(n) == IF n = 0 THEN <<>> ELSE Fragments(1, n)

\* TRUE when the stream was one or more text-deltas and then finish
TextThenFinish ==
    /\ Len(trace) >= 2
    /\ trace[Len(trace)].type = "finish"
    /\ \A k \in 1..(Len(trace) - 1) : IsTextDelta(trace[k])

\* C25: when the caller's history ends with a user turn and the stream is one or
\* more text-deltas followed by finish, query returns the history with exactly
\* one assistant plain-text turn appended, whose content is the fragments
\* concatenated in arrival order; the turns of the history are unchanged.
C25_TextStreamAddsOneTurn ==
    (/\ pc = "resolved"
     /\ Len(historyAtCall) > 0
     /\ Last(historyAtCall).role = "user"
     /\ TextThenFinish) =>
        Returned = Append(historyAtCall,
                          TextMessage("assistant", TextsUpTo(Len(trace) - 1), NoMetadata))

\* history [user q], stream [text a, text b, finish]: one assistant turn "ab"
C25_Witness ==
    /\ pc = "resolved"
    /\ historyAtCall = <<UserTurn>>
    /\ Len(trace) = 3
    /\ trace[1].text = <<"a">> /\ IsTextDelta(trace[1])
    /\ trace[2].text = <<"b">> /\ IsTextDelta(trace[2])
    /\ trace[3].type = "finish"
    /\ Returned = <<UserTurn, TextMessage("assistant", <<"a", "b">>, NoMetadata)>>

\* --------------------------------------------------------------------- C26
\* the output kinds of a ToolResult part that stand for a failure
ErrorKinds == {"error-text", "error-json"}

\* TRUE when the stream began with call id opened, finalized and failed
OpenedFinalizedFailed(id) ==
    /\ Len(trace) >= 3
    /\ trace[1].type = "tool-input-start" /\ trace[1].id = id
    /\ trace[2].type = "tool-call" /\ trace[2].id = id
    /\ trace[3].type = "tool-error" /\ trace[3].id = id

\* what C26 says of the two turns, the output kind aside
C26_TwoTurnsAdded(id) ==
    /\ Len(After(3)) = Len(historyAtCall) + 2
    /\ SubSeq(After(3), 1, Len(historyAtCall)) = historyAtCall
    /\ After(3)[Len(historyAtCall) + 1] =
          PartsMessage("assistant",
                       <<ToolCallPart(id, trace[2].toolName, trace[2].input)>>, NoMetadata)
    /\ IsResultTurnOf(Last(After(3)), id)
    /\ Last(After(3)).metadata.is_error

NormalizedMessage(e) ==
    CASE e.tag \in {"null", "undefined"} -> <<"Unknown error occurred">>
      [] e.tag = "string" -> e.repr
      [] e.tag = "Error" -> e.message
      [] e.tag = "object" /\ e.hasMessage /\ e.hasType -> e.type \o <<": ">> \o e.message
      [] e.tag = "object" /\ e.hasMessage /\ ~e.hasType -> e.message
      [] e.tag = "object" /\ ~e.hasMessage -> e.repr
      [] OTHER -> e.repr

\* the sequences of at most three tokens the messages of ErrorValues are
Strings3 ==
    {m \in UNION {[1..n -> {"Unknown error occurred", "busy", "boom", "overloaded_error",
                            ": ", "42", "{}", "{\"message\":42}",
                            "{\"type\":\"overloaded_error\"}"}] : n \in 0..3} : TRUE}

\* C30: the content of the error turn an 'error' chunk appends is what
\* extractErrorMessage made of chunk.error: a string in every case; the generic
\* "Unknown error occurred" only for null and undefined; a string itself; the
\* message of an Error; "type: message" for an object with a string message and a
\* string type; the message for an object with a string message only; the JSON
\* form of any other object.
C30_ErrorMessageIsNormalized ==
    \A k \in 1..Len(trace) :
        trace[k].type = "error" =>
            /\ Last(After(k)).kind = "string"
            /\ Last(After(k)).text \in Strings3
            /\ Last(After(k)).text = NormalizedMessage(trace[k].payload)
            /\ Last(After(k)).text = <<"Unknown error occurred">> =>
                  trace[k].payload.tag \in {"null", "undefined"}

\* the empty string and an object whose type is no string were normalized: the
\* first to itself, the second to its message
C30_Witness ==
    /\ Len(trace) = 2 /\ Len(snapshots) = 2
    /\ trace[1].payload = StringError(<<>>)
    /\ Last(After(1)).text = <<>>
    /\ trace[2].payload.tag = "object"
    /\ trace[2].payload.hasMessage /\ ~trace[2].payload.hasType
    /\ trace[2].payload.repr # <<"{\"message\":\"busy\"}">>
    /\ Last(After(2)).text = <<"busy">>

\* ------------------------------------------------------------------- C29
\* query has gone past the initialization check and asked for the model
InvocationRequested == pc \in {"model", "stream", "resolved", "rejected"}

\* query is called in this step
QueryCalled == pc = "idle" /\ pc' # "idle"

\* a call of setupWorkingDirectory has failed and fallen back to process.cwd()
SetupHasFailed == \E c \in Callers : setup[c] = "cwd"

\* C29 as stated: query does not request a model invocation before the working
\* directory has been initialized, and a query called after an initialization
\* attempt failed runs setupWorkingDirectory again before proceeding
C29_FailedSetupIsRetried ==
    [][ /\ InvocationRequested' => isInitialized'
        /\ QueryCalled /\ SetupHasFailed => setup'["query"] \in SetupBegins ]_vars

\* C29 amended: query does not request a model invocation before the working
\* directory has been initialized; it runs setupWorkingDirectory itself exactly
\* when isInitialized is still false at the call, and then asks for the model
\* only after its own run returned; an attempt that failed has fallen back to
\* process.cwd() and set isInitialized, and is not run again
C29_SetupRunsWhenNotInitialized ==
    [][ /\ InvocationRequested' => isInitialized'
        /\ QueryCalled => (setup'["query"] \in SetupBegins <=> ~isInitialized)
        /\ QueryCalled /\ SetupHasFailed => setup'["query"] = "none"
        /\ pc = "setup" /\ pc' # "setup" => setup'["query"] \in Settled /\ pc' = "ready"
        /\ pc = "ready" /\ pc' # "ready" => pc' = "model" /\ isInitialized ]_vars

\* query asked for the model after running the setup itself, while the
\* constructor's run was still waiting for the file system
C29_Witness ==
    /\ pc = "model"
    /\ setup["query"] \in Settled
    /\ setup["constructor"] \in Pending

\* --------------------------------------------------------------------- C31
\* C31 as stated: the caller's history is an unchanged prefix of every
\* transcript query delivers or returns: the turns below the history's length
\* keep exactly the content they had in the history.
C31_HistoryIsUnchangedPrefix ==
    /\ \A n \in 1..Len(Transcripts) : IsPrefix(historyAtCall, Transcripts[n])
    /\ pc = "resolved" => IsPrefix(historyAtCall, Returned)

\* turn t with its ToolCall part of the chunk's id replaced by the finalized call
WithInput(t, chunk) ==
    [t EXCEPT !.parts[PartOf(t, chunk.id)] =
        ToolCallPart(chunk.id, chunk.toolName, chunk.input)]

\* C31 amended: no transcript is shorter than the caller's history, and from one
\* transcript to the next a turn of the history keeps exactly its content but
\* in two cases: a text-delta that finds the history's last turn still last,
\* and a plain-text assistant turn that is not an error turn, concatenates its
\* fragment onto it; a tool-call whose id is held by a turn of the history, and
\* by no later turn, replaces that ToolCall part by one with the event's name and
\* input. What a resolved
\* query returns is the last of these transcripts.
C31_HistoryChangesOnlyByMergeOrFinalize ==
    /\ \A n \in 1..(Len(Transcripts) - 1) :
         LET p == Transcripts[n]
             q == Transcripts[n + 1]
             byChunk == n <= Len(trace)
         IN /\ Len(q) >= Len(p)
            /\ \A i \in 1..Len(historyAtCall) :
                 \/ q[i] = p[i]
                 \/ /\ byChunk /\ IsTextDelta(trace[n])
                    /\ i = Len(p) /\ Mergeable(p)
                    /\ q[i] = [p[i] EXCEPT !.text = @ \o trace[n].text]
                 \/ /\ byChunk /\ trace[n].type = "tool-call"
                    /\ Holders(p, trace[n].id) # {}
                    /\ i = MostRecentHolder(p, trace[n].id)
                    /\ q[i] = WithInput(p[i], trace[n])
    /\ pc = "resolved" => Returned = Last(Transcripts)

\* the history ended with the assistant's text 'h': a fragment was concatenated
\* onto it, a tool call was opened behind it, and query failed with the text
\* still 'ha' and the user's turn as it was
C31_Witness ==
    /\ pc = "rejected"
    /\ Len(historyAtCall) = 2 /\ historyAtCall[2].text = <<"h">>
    /\ Len(trace) = 2
    /\ IsTextDelta(trace[1]) /\ trace[2].type = "tool-input-start"
    /\ Last(Transcripts)[2].text = <<"h", "a">>
    /\ Last(Transcripts)[1] = historyAtCall[1]
    /\ Len(Last(Transcripts)) = 4

\* --------------------------------------------------------------------- C32
\* the ToolCall parts with the id in a transcript, each by its turn and position
ToolCallsOf(msgs, id) ==
    UNION {{<<i, p>> : p \in {p \in 1..Len(msgs[i].parts) :
                                /\ msgs[i].parts[p].type = "tool-call"
                                /\ msgs[i].parts[p].toolCallId = id}} :
           i \in {i \in 1..Len(msgs) : msgs[i].kind = "array"}}

\* the chunks that opened the call with the id, and those that finalized it
Opens(id) ==
    {k \in 1..Len(trace) : trace[k].type = "tool-input-start" /\ trace[k].id = id}
Finalizes(id) ==
    {k \in 1..Len(trace) : trace[k].type = "tool-call" /\ trace[k].id = id}

\* the id is opened at most once, finalized only after it was opened, and the
\* caller's history holds no ToolCall with it
OpenedOnceThenFinalized(id) ==
    /\ Cardinality(Opens(id)) <= 1
    /\ \A f \in Finalizes(id) : \E o \in Opens(id) : o < f
    /\ ToolCallsOf(historyAtCall, id) = {}

\* C32: for an id that is opened at most once, finalized after it was opened and
\* absent from the history, every transcript holds no ToolCall part with the id
\* before the call is opened and exactly one from then on: the tool-call event
\* never creates a second part.
C32_OneToolCallPartPerId ==
    \A id \in ToolCallIds :
        OpenedOnceThenFinalized(id) =>
            \A n \in 1..Len(Transcripts) :
                Cardinality(ToolCallsOf(Transcripts[n], id)) =
                    IF \E o \in Opens(id) : o < n THEN 1 ELSE 0

\* calls A and B were opened and then finalized the other way round: the
\* transcript holds one ToolCall part for each
C32_Witness ==
    /\ Len(trace) = 4 /\ Len(snapshots) = 4
    /\ Opens("A") = {1} /\ Opens("B") = {2}
    /\ Finalizes("B") = {3} /\ Finalizes("A") = {4}
    /\ ToolCallsOf(historyAtCall, "A") = {}
    /\ Cardinality(ToolCallsOf(After(4), "A")) = 1
    /\ Cardinality(ToolCallsOf(After(4), "B")) = 1

\* --------------------------------------------------------------------- C33
\* the first call, read as the second is kept
First ==
    Call(pc, updatedMessages, sessionId, aborted, trace, delivered, snapshots,
         thrown, caught, historyAtCall)

\* the time an error turn at the end of a transcript was stamped with
StampOf(msgs) == IF Len(msgs) = 0 THEN NoTime ELSE Last(msgs).metadata.timestamp

RECURSIVE Alone(_, _)
\* the transcript call c has after k chunks when it runs alone: its own history
\* with its own chunks applied one after the other, under its own session id
Alone(c, k) ==
    IF k = 0 THEN c.historyAtCall
    ELSE Switch(Alone(c, k - 1), c.trace[k], StampOf(c.snapshots[k]), c.sessionId)

\* what the call delivered and returned is what it delivers and returns alone
RunsAsAlone(c) ==
    /\ \A k \in 1..Len(c.trace) : c.snapshots[k] = Alone(c, k)
    /\ Len(c.delivered) = Len(c.snapshots)
    /\ c.pc \in {"model", "stream"} =>
          /\ Len(c.snapshots) = Len(c.trace)
          /\ heap[c.updatedMessages] = Alone(c, Len(c.trace))
    /\ c.pc = "resolved" =>
          /\ Len(c.snapshots) = Len(c.trace)
          /\ heap[c.updatedMessages] = Alone(c, Len(c.trace))
          /\ c.thrown = NoError
    /\ c.pc = "rejected" =>
          /\ Len(c.snapshots) = Len(c.trace) + 1
          /\ Last(c.snapshots) =
                CatchAppend(Alone(c, Len(c.trace)), c.caught,
                            StampOf(Last(c.snapshots)), c.sessionId)
          /\ heap[c.updatedMessages] = Last(c.snapshots)
          /\ c.thrown = c.caught
          /\ c.caught = OperationCancelled => c.aborted

\* C33: two overlapping calls of query on one instance, each with its own
\* history array and its own stream, do not interfere: under every interleaving
\* each call delivers and returns exactly the transcripts it produces alone.
C33_OverlappingCallsDoNotInterfere ==
    RunsAsAlone(First) /\ RunsAsAlone(other)

\* both calls were given a history that holds ToolCall A; the stream of each
\* finalized A, the second call's chunk arriving between the first call's chunk
\* and its return; the first resolved and the second failed afterwards
C33_Witness ==
    /\ pc = "resolved" /\ other.pc = "rejected"
    /\ Len(trace) = 1 /\ Len(other.trace) = 1
    /\ trace[1].type = "tool-call" /\ other.trace[1].type = "tool-call"
    /\ Len(historyAtCall) = 3 /\ Len(other.historyAtCall) = 3
    /\ Len(heap[updatedMessages]) = 3
    /\ Len(Last(other.snapshots)) = 4

\* --------------------------------------------------------------------- C34
\* C34 as stated: once isReady is true, what getWorkingDirectory returns never
\* changes again, however the runs of setupWorkingDirectory started by the
\* constructor, query and waitForInitialization interleave and end.
C34_WorkingDirectoryIsStableOnceReady ==
    [][isReady => getWorkingDirectory' = getWorkingDirectory]_vars

\* --------------------------------------------------------------------- C35
\* a run of setupWorkingDirectory finishes in this step
Finishes(c) == setup[c] \in Pending /\ setup'[c] \in Settled

\* C35: every run of setupWorkingDirectory, whether it finds the directory,
\* creates it or falls back after a file-system failure, finishes with
\* isInitialized true and a working directory that is not empty; isInitialized
\* never goes back to false; isReady implies a working directory that is not
\* empty; waitForInitialization resolves, and with true.
C35_InitializationEndsInitialized ==
    /\ [][\A c \in Callers :
            Finishes(c) => isInitialized' /\ workingDirectory' # NoDir]_vars
    /\ [][isInitialized => isInitialized']_vars
    /\ [](isReady => getWorkingDirectory # NoDir)
    /\ [](waited \in {"none", "waiting", "true"})
    /\ (waited = "waiting") ~> (waited = "true")

\* waitForInitialization ran the setup itself, the file system failed it, and
\* it resolved with true on the process working directory, while the
\* constructor's run was still waiting
C35_Witness ==
    /\ waited = "true"
    /\ setup["wait"] = "cwd"
    /\ setup["constructor"] \in Pending
    /\ isReady
    /\ getWorkingDirectory = CwdDir

\* --------------------------------------------------------------------- C36
\* the state the last action was dispatched on, and its patch
PrevState == ValueOf(last.prev)
Patch == ValueOf(last.patch)

\* C36: the reducer changes only the field each action owns: loadChats replaces
\* messages with the patch and leaves css as it was, clearChats sets messages
\* to the empty list and leaves css as it was, getCssFileContent sets the css
\* entry of the patch's filePath and leaves messages and every other css entry
\* as they were, sendChatMessage returns the state it was given.
C36_ReducerChangesOnlyItsField ==
    /\ last.action = "loadChats" =>
          /\ state.messages = Defined(Patch)
          /\ state.css = PrevState.css
    /\ last.action = "clearChats" =>
          /\ state.messages = Defined(<<>>)
          /\ state.css = PrevState.css
    /\ last.action = "getCssFileContent" =>
          /\ state.messages = PrevState.messages
          /\ DOMAIN state.css = DOMAIN PrevState.css \cup {Patch.filePath}
          /\ state.css[Patch.filePath] = Patch
          /\ \A p \in DOMAIN PrevState.css :
                p # Patch.filePath => state.css[p] = PrevState.css[p]
    /\ last.action = "sendChatMessage" => state = PrevState

\* chats were loaded onto a state that held both css files, and the css came
\* through as it was
C36_Witness ==
    /\ last.action = "loadChats"
    /\ Len(Patch) = 3
    /\ DOMAIN PrevState.css = CssPaths
    /\ PrevState.messages = Defined(<<>>)
    /\ state.css["a.css"].content = Defined("x")
    /\ state.css["b.css"].error = Defined("ENOENT")

\* --------------------------------------------------------------------- C37
\* every upload of the batch has finished, every save has been answered and
\* handled, and the effect has run
BatchSettled ==
    /\ batch # <<>>
    /\ \A i \in DOMAIN batch : batch[i].upload = "done" /\ batch[i].notice # "none"
    /\ ~EffectDue

\* the images of the batch that were saved, as the notifications told
SavedImages == {i \in DOMAIN batch : batch[i].notice = "saved"}

\* the saved images in every order, as pendingImages would hold them
SavedInAnyOrder ==
    {s \in [1..Cardinality(SavedImages) -> SavedImages] :
        \A a, b \in DOMAIN s : a # b => s[a] # s[b]}

\* C37: when several images are uploaded in one batch, then once every upload
\* has finished and every imageSavedToMoodboard has been handled the context is
\* of type 'images' and lists the full paths of all saved images of the batch,
\* whatever the order of upload completions and notifications.
C37_BatchContextListsEveryImage ==
    (BatchSettled /\ Cardinality(SavedImages) >= 2) =>
        /\ IsDefined(currentContext)
        /\ ValueOf(currentContext).type = "images"
        /\ \E s \in SavedInAnyOrder :
              ValueOf(currentContext).fileName =
                  JoinPaths([k \in DOMAIN s |-> [fullPath |-> fullPath(s[k])]])

====
